---------------------------- MODULE Spec2Model ----------------------------
(***************************************************************************)
(* FaceGuard (src/face_guard.py): the polling loop of VisionWorker.run and *)
(* the operations that share its state: presence / brightness / auto-lock, *)
(* the unknown-face confirmation request, the trusted-user session kept by *)
(* the worker (settings.json) and the trusted session kept by the          *)
(* module-level security-key functions (security_key.json).                *)
(*                                                                         *)
(* Time is counted in whole seconds.  One loop iteration reads the clock   *)
(* once: every time.time() of an iteration returns the same value.  The    *)
(* verdict of _detect_gesture over the sample window is an input of the    *)
(* tick, as are the verdicts of the face matchers, the outcome of the      *)
(* brightness and lock actuators and the observed lock / sleep state.      *)
(***************************************************************************)
EXTENDS Integers, Sequences, FiniteSets, TLC

\* ------------------------------------------------------------ bounds
\* Seconds of the run explored by SpecPresence.
PresenceHorizon == 14
SwitchHorizon == 12
ChallengeHorizon == 6
KeyChangeHorizon == 5
ReturnHorizon == 8
\* Seconds of the run explored by SpecSession.
SessionHorizon == 7
\* Seconds of the run explored by SpecConfirm.
ConfirmHorizon == 7
\* Seconds of the run explored by SpecGestureTest.
GestureTestHorizon == 8
\* time.time() when the worker is constructed (any value far from 0).
StartTime == 100
\* auto_lock_grace_period read from settings.json (seconds); load_settings
\* takes the file's value as it is.
GracePeriod == 1
\* security_key_timeout (seconds) read from settings.json and
\* security_key.json; test_security_key.py runs with a timeout of 1 s.
SessionTimeout == 2
\* Seconds of the run explored by SpecEpisodes.
EpisodeHorizon == 4
\* Seconds of the run explored by SpecFaults.
FaultHorizon == 5

ReminderHorizon == 9

WindowHorizon == 12

LongTrainingHorizon == 18

CalibrationHorizon == 4

RaceHorizon == 4

\* The ticks that read the clock value of a calibration start stop once the
\* window holds this many samples.
MaxBuffered == 12

\* Training and calibration are started in the first seconds of a run.
EarlyStarts == 2

\* The long gap between two ticks of a training episode.
LongGap == 8
\* Seconds of the run explored by SpecKeySwitch.
KeySwitchHorizon == 6
\* Seconds of the run explored by SpecBrightness.
BrightnessHorizon == 6
\* Seconds of the run explored by SpecTraining.
TrainingHorizon == 7
\* Samples of a window that SpecClassifier draws freely; the samples before
\* them are neutral.
FreeSamples == 3
\* Seconds of the run explored by SpecWarning.
WarningHorizon == 850
\* Longest key typed by SpecKey.
MaxKeyLen == 5
\* Deferred dialog creations that may wait in the UI event queue.
MaxPending == 2
\* Brightness of the screen when the program starts.
StartBrightness == 70

\* ------------------------------------------------- program constants
OwnerAbsenceDelay == 3
ConfirmWindow == 6
DebounceSeconds == 2
NoticeInterval == 10
GestureTestTimeout == 10
WarningWindow == 60
MinKeyLength == 4
DefaultSessionTimeout == 600
SamePersonDistance == 6
MinSamples == 10
MinOscillations == 2
TrainingTimeout == 15
CalibrationSeconds == 3
MinTrainingRange == 5
PatternsNeeded == 5
MinPatterns == 3
\* Thresholds are counted in 1/25 degree: 0.6 * (sum / 5) = 3 * sum / 25.
ThresholdScale == 25
NodFloor == 8
ShakeFloor == 10
DefaultNodThreshold == 12
DefaultShakeThreshold == 15
NodBrightness == 25
FallbackBrightness == 100

None == -1
NoUser == ""
Users == {"alice", "bob"}
\* Characters of a typed key: " " stands for any whitespace character.
Chars == {" ", "a"}
\* The key the owner has set, and the keys the dialogs submit (trimmed).
OwnerKey == <<"a", "a", "a", "a">>
Keys == {OwnerKey, <<"a", " ", "a", "a">>}
Gestures == {"none", "nod", "shake"}

\* The reminder is shown while 1.8 s < remaining <= 2.0 s (in tenths).
WarnFromTenths == 20

WarnUntilTenths == 18

\* deque(maxlen=30)
HistMaxLen == 30

\* A calibration needs more than 10 buffered samples.
CalibrationSamples == 10

VARIABLES
    worker,     \* fields of the VisionWorker object
    settings,   \* worker.settings, the document saved to settings.json
    key_data,   \* the document in security_key.json
    trusted_file, \* the faces saved to trusted_faces.json
    screen,     \* brightness of the display (screen_brightness_control)
    clock,      \* time.time()
    calls,      \* actuator calls issued by the last step, in order
    toasts,     \* notifications and callbacks emitted by the last step
    ui_queue,   \* QTimer.singleShot(0, ...) callbacks not yet run
    result,     \* value returned by the last call of a module-level function
    input,      \* arguments of the calls a specification of one function makes
    hist        \* history of the run, read by the properties only

vars == <<worker, settings, key_data, trusted_file, screen, clock, calls, toasts,
          ui_queue, result, input, hist>>

Call(op, val) == [op |-> op, val |-> val]

Range(seq) == {seq[i] : i \in 1..Len(seq)}

Count(seq, x) == Cardinality({i \in 1..Len(seq) : seq[i] = x})

hash_security_key(key) == <<"sha256", key>>

NoHash == <<>>

\* The machine an operation works on: the variables it may change.
Machine ==
    [w |-> worker, settings |-> settings, kd |-> key_data, screen |-> screen,
     calls |-> <<>>, toasts |-> <<>>, queue |-> ui_queue, ret |-> <<>>,
     faces_file |-> trusted_file]

Toast(m, t) == [m EXCEPT !.toasts = Append(@, t)]

\* An exception that nothing catches leaves run(): the thread ends.
Raise(m) == [m EXCEPT !.w.run_active = FALSE]

\* ------------------------------------------------- brightness helpers

Clamp(val) == IF val < 0 THEN 0 ELSE IF val > 100 THEN 100 ELSE val

\* sbc.get_brightness, 100 when the library raises.
get_current_brightness(m, get_ok) == IF get_ok THEN m.screen ELSE FallbackBrightness

\* The actuator call is issued; on an exception nothing else changes.
set_brightness(m, val, set_ok) ==
    LET v == Clamp(val)
        called == [m EXCEPT !.calls = Append(@, Call("set_brightness", v))]
    IN  IF set_ok
        THEN [called EXCEPT !.screen = v, !.settings.current_brightness = v]
        ELSE called

store_current_brightness(m, get_ok) ==
    LET current == get_current_brightness(m, get_ok)
    IN  IF m.settings.brightness_restored
        THEN [m EXCEPT !.settings.brightness_before_absence = current,
                       !.settings.brightness_restored = FALSE]
        ELSE m

\* Mutant: the restored flag is left as it was.
restore_brightness_flag_kept(m, set_ok) ==
    LET stored_brightness == m.settings.brightness_before_absence
    IN  IF ~m.settings.brightness_restored
        THEN [set_brightness(m, stored_brightness, set_ok)
                EXCEPT !.settings.brightness_before_absence = stored_brightness]
        ELSE m

restore_brightness(m, set_ok) ==
    LET stored_brightness == m.settings.brightness_before_absence
    IN  IF ~m.settings.brightness_restored
        THEN [set_brightness(m, stored_brightness, set_ok)
                EXCEPT !.settings.brightness_restored = TRUE,
                       !.settings.brightness_before_absence = stored_brightness]
        ELSE m

\* ------------------------------------- security_key.json, module level

get_security_key_status(m) ==
    [configured |-> m.kd.security_key_hash # NoHash,
     session_active |-> m.kd.trusted_session_active,
     trusted_user |-> m.kd.trusted_user_name]

\* str.strip(): leading and trailing whitespace removed.
RECURSIVE lstrip(_)
lstrip(key) ==
    IF key # <<>> /\ Head(key) = " " THEN lstrip(Tail(key)) ELSE key

RECURSIVE rstrip(_)
rstrip(key) ==
    IF key # <<>> /\ key[Len(key)] = " "
    THEN rstrip(SubSeq(key, 1, Len(key) - 1))
    ELSE key

strip(key) == rstrip(lstrip(key))

set_security_key(m, key, timeout_minutes) ==
    IF key = <<>> \/ Len(strip(key)) < MinKeyLength
    THEN [m EXCEPT !.ret = <<FALSE, "too_short">>]
    ELSE [m EXCEPT !.kd.security_key_hash = hash_security_key(strip(key)),
                   !.kd.security_key_enabled = TRUE,
                   !.kd.security_key_timeout = timeout_minutes * 60,
                   !.kd.trusted_session_active = FALSE,
                   !.kd.trusted_session_start = 0,
                   !.kd.trusted_user_name = NoUser,
                   !.ret = <<TRUE, "set">>]

\* Mutant: the key is hashed as typed, without trimming.
verify_security_key_untrimmed(m, key) ==
    IF ~m.kd.security_key_enabled \/ m.kd.security_key_hash = NoHash
    THEN <<FALSE, "not_configured">>
    ELSE IF hash_security_key(key) = m.kd.security_key_hash
         THEN <<TRUE, "verified">>
         ELSE <<FALSE, "invalid">>

\* The pair (success, message) verify_security_key returns; it writes nothing.
verify_security_key(m, key) ==
    IF ~m.kd.security_key_enabled \/ m.kd.security_key_hash = NoHash
    THEN <<FALSE, "not_configured">>
    ELSE IF hash_security_key(strip(key)) = m.kd.security_key_hash
         THEN <<TRUE, "verified">>
         ELSE <<FALSE, "invalid">>

module_verify_security_key(m, key) == verify_security_key(m, key)[1]

start_trusted_session(m, user_name, now) ==
    [m EXCEPT !.kd.trusted_session_active = TRUE,
              !.kd.trusted_session_start = now,
              !.kd.trusted_user_name = user_name]

module_end_trusted_session(m) ==
    [m EXCEPT !.kd.trusted_session_active = FALSE,
              !.kd.trusted_session_start = 0,
              !.kd.trusted_user_name = NoUser]

\* Mutant: the session is ended one second late.
check_trusted_session_timeout_late(m, now) ==
    IF ~m.kd.trusted_session_active
    THEN m
    ELSE IF now - m.kd.trusted_session_start > m.kd.security_key_timeout + 1
         THEN [m EXCEPT !.kd.trusted_session_active = FALSE,
                        !.kd.trusted_session_start = 0,
                        !.kd.trusted_user_name = NoUser]
         ELSE m

\* Returns the machine; the session is ended when it has timed out.
check_trusted_session_timeout(m, now) ==
    IF ~m.kd.trusted_session_active
    THEN m
    ELSE IF now - m.kd.trusted_session_start > m.kd.security_key_timeout
         THEN module_end_trusted_session(m)
         ELSE m

\* check_trusted_session_timeout has already ended a timed-out session, so
\* the status read afterwards never shows it active: nothing more happens.
check_security_key_timeout(m, now) == check_trusted_session_timeout(m, now)

\* ------------------------------------------ worker's trusted session

require_security_key(m, trusted_name) ==
    IF m.w.security_key_dialog # NoUser
    THEN m
    ELSE LET t == Toast(m, "security_key_required")
         IN  IF Len(t.queue) < MaxPending
             THEN [t EXCEPT !.queue = Append(@, trusted_name)]
             ELSE t

\* Mutant: the warning is not guarded by security_key_warning_shown.
handle_trusted_user_session_warning_repeated(m, trusted_name, now, save_ok) ==
    IF ~m.w.security_key_enabled
    THEN m
    ELSE LET new_session == ~m.w.trusted_session_active \/ m.w.trusted_user_name # trusted_name
             started == [m EXCEPT !.w.trusted_session_active = TRUE,
                                  !.w.trusted_session_start = now,
                                  !.w.trusted_user_name = trusted_name,
                                  !.w.security_key_warning_shown = FALSE,
                                  !.settings.trusted_session_active = TRUE,
                                  !.settings.trusted_session_start = now,
                                  !.settings.trusted_user_name = trusted_name]
             m1 == IF new_session THEN Toast(started, "session_started") ELSE m
             time_remaining == m1.w.security_key_timeout - (now - m1.w.trusted_session_start)
         IN  IF new_session /\ ~save_ok
             THEN Raise(started)
             ELSE IF time_remaining <= 0
             THEN require_security_key(m1, trusted_name)
             ELSE IF time_remaining <= WarningWindow
                  THEN Toast([m1 EXCEPT !.w.security_key_warning_shown = TRUE],
                             "security_key_warning")
                  ELSE m1

\* save_ok: save_settings, which nothing wraps here, does not raise.
handle_trusted_user_session(m, trusted_name, now, save_ok) ==
    IF ~m.w.security_key_enabled
    THEN m
    ELSE LET new_session == ~m.w.trusted_session_active \/ m.w.trusted_user_name # trusted_name
             started == [m EXCEPT !.w.trusted_session_active = TRUE,
                                  !.w.trusted_session_start = now,
                                  !.w.trusted_user_name = trusted_name,
                                  !.w.security_key_warning_shown = FALSE,
                                  !.settings.trusted_session_active = TRUE,
                                  !.settings.trusted_session_start = now,
                                  !.settings.trusted_user_name = trusted_name]
             m1 == IF new_session THEN Toast(started, "session_started") ELSE m
             time_remaining == m1.w.security_key_timeout - (now - m1.w.trusted_session_start)
         IN  IF new_session /\ ~save_ok
             THEN Raise(started)
             ELSE IF time_remaining <= 0
             THEN require_security_key(m1, trusted_name)
             ELSE IF time_remaining <= WarningWindow /\ ~m1.w.security_key_warning_shown
                  THEN Toast([m1 EXCEPT !.w.security_key_warning_shown = TRUE],
                             "security_key_warning")
                  ELSE m1

\* Mutant: the warning flag survives a verified key.
worker_verify_security_key_keeps_warning(m, entered_key, now) ==
    IF m.w.security_key_hash = NoHash
    THEN [m EXCEPT !.ret = <<FALSE, "not_configured">>]
    ELSE IF hash_security_key(entered_key) = m.w.security_key_hash
         THEN Toast([m EXCEPT !.w.trusted_session_start = now,
                              !.settings.trusted_session_start = now,
                              !.ret = <<TRUE, "verified">>],
                    "security_key_verified")
         ELSE [m EXCEPT !.ret = <<FALSE, "incorrect">>]

worker_verify_security_key(m, entered_key, now) ==
    IF m.w.security_key_hash = NoHash
    THEN [m EXCEPT !.ret = <<FALSE, "not_configured">>]
    ELSE IF hash_security_key(entered_key) = m.w.security_key_hash
         THEN Toast([m EXCEPT !.w.trusted_session_start = now,
                              !.w.security_key_warning_shown = FALSE,
                              !.settings.trusted_session_start = now,
                              !.ret = <<TRUE, "verified">>],
                    "security_key_verified")
         ELSE [m EXCEPT !.ret = <<FALSE, "incorrect">>]

\* SettingsWindow.save_settings with the key field left empty: the checkbox
\* decides whether the worker asks for the key; the other controls keep the
\* values they were loaded with.
settings_window_save(m, security_key_checked) ==
    [m EXCEPT !.w.security_key_enabled = security_key_checked]

worker_end_trusted_session(m) ==
    IF m.w.trusted_session_active
    THEN [m EXCEPT !.w.trusted_session_active = FALSE,
                   !.w.trusted_session_start = 0,
                   !.w.trusted_user_name = NoUser,
                   !.w.security_key_warning_shown = FALSE,
                   !.settings.trusted_session_active = FALSE,
                   !.settings.trusted_session_start = 0,
                   !.settings.trusted_user_name = NoUser,
                   !.w.security_key_dialog = NoUser]
    ELSE m

\* ---------------------------------------------------- trusted faces

\* str.lower() over the letters of a name.
LowerChar(c) == IF c = "A" THEN "a" ELSE IF c = "B" THEN "b" ELSE c

lower(name) == [i \in 1..Len(name) |-> LowerChar(name[i])]

\* face_recognition.face_distance, in tenths; encodings are points of a line.
face_distance(a, b) == IF a > b THEN a - b ELSE b - a

TrustedFace(name, encoding) == [name |-> name, encoding |-> encoding]

\* save_json writes the whole list; when it raises the file keeps its content.
save_trusted_faces(m, save_ok) ==
    IF save_ok THEN [m EXCEPT !.faces_file = m.w.trusted_faces] ELSE m

\* Mutant: a second face in the frame is ignored.
add_trusted_face_first_box(m, frame, name, save_ok) ==
    IF Len(frame.boxes) = 0
    THEN [m EXCEPT !.ret = <<FALSE, "no_face">>]
    ELSE IF ~frame.encodable
    THEN [m EXCEPT !.ret = <<FALSE, "no_encoding">>]
    ELSE LET encoding == frame.boxes[1]
         IN  IF \E i \in 1..Len(m.w.trusted_faces) :
                    face_distance(m.w.trusted_faces[i].encoding, encoding)
                        < SamePersonDistance
             THEN [m EXCEPT !.ret = <<FALSE, "already_registered">>]
             ELSE LET a == [m EXCEPT !.w.trusted_faces =
                                         Append(@, TrustedFace(name, encoding))]
                  IN  IF save_ok
                      THEN [save_trusted_faces(a, save_ok) EXCEPT !.ret = <<TRUE, "Success">>]
                      ELSE [a EXCEPT !.ret = <<FALSE, "unexpected_error">>]

add_trusted_face(m, frame, name, save_ok) ==
    IF Len(frame.boxes) = 0
    THEN [m EXCEPT !.ret = <<FALSE, "no_face">>]
    ELSE IF Len(frame.boxes) > 1
    THEN [m EXCEPT !.ret = <<FALSE, "multiple_faces">>]
    ELSE IF ~frame.encodable
    THEN [m EXCEPT !.ret = <<FALSE, "no_encoding">>]
    ELSE LET encoding == frame.boxes[1]
         IN  IF \E i \in 1..Len(m.w.trusted_faces) :
                    face_distance(m.w.trusted_faces[i].encoding, encoding)
                        < SamePersonDistance
             THEN [m EXCEPT !.ret = <<FALSE, "already_registered">>]
             ELSE LET a == [m EXCEPT !.w.trusted_faces =
                                         Append(@, TrustedFace(name, encoding))]
                  IN  IF save_ok
                      THEN [save_trusted_faces(a, save_ok) EXCEPT !.ret = <<TRUE, "Success">>]
                      ELSE [a EXCEPT !.ret = <<FALSE, "unexpected_error">>]

\* Mutant: the names are compared as they are written.
add_trusted_face_dialog_case_sensitive(m, entered, frame, save_ok) ==
    LET name == strip(entered)
    IN  IF name = <<>>
        THEN m
        ELSE IF \E i \in 1..Len(m.w.trusted_faces) : m.w.trusted_faces[i].name = name
        THEN [m EXCEPT !.ret = <<FALSE, "name_exists">>]
        ELSE add_trusted_face(m, frame, name, save_ok)

\* CameraPreview.add_trusted_face_dialog with a frame at hand; ret is what
\* the dialog reports to the user.
add_trusted_face_dialog(m, entered, frame, save_ok) ==
    LET name == strip(entered)
    IN  IF name = <<>>
        THEN m
        ELSE IF \E i \in 1..Len(m.w.trusted_faces) :
                   lower(m.w.trusted_faces[i].name) = lower(name)
        THEN [m EXCEPT !.ret = <<FALSE, "name_exists">>]
        ELSE add_trusted_face(m, frame, name, save_ok)

remove_trusted_face(m, name, save_ok) ==
    IF ~\E i \in 1..Len(m.w.trusted_faces) : m.w.trusted_faces[i].name = name
    THEN [m EXCEPT !.ret = <<FALSE>>]
    ELSE LET HasOtherName(face) == face.name # name
             r == [m EXCEPT !.w.trusted_faces = SelectSeq(@, HasOtherName)]
         IN  IF save_ok
             THEN [save_trusted_faces(r, save_ok) EXCEPT !.ret = <<TRUE>>]
             ELSE [r EXCEPT !.ret = <<FALSE>>]

\* TrustedFacesWindow.refresh_list reloads the list from the file.
refresh_list(m) == [m EXCEPT !.w.trusted_faces = m.faces_file]

\* TrustedFacesWindow.remove_selected; the list is refreshed after either
\* outcome.
remove_selected(m, name, save_ok) ==
    LET r == remove_trusted_face(m, name, save_ok)
    IN  [refresh_list(r) EXCEPT !.ret = r.ret]

\* ------------------------------------------------ system lock / sleep

on_lock_change(m, current_locked) ==
    IF current_locked = m.w.system_locked
    THEN m
    ELSE IF current_locked
         THEN Toast([m EXCEPT !.w.system_locked = TRUE,
                              !.w.program_paused = TRUE,
                              !.w.auto_lock_in_progress = FALSE,
                              !.w.auto_lock_grace_period_start = None,
                              !.w.owner_absent_start = None,
                              !.w.brightness_dimmed_for_absence = FALSE],
                    "monitoring_paused")
         ELSE Toast([m EXCEPT !.w.system_locked = FALSE,
                              !.w.program_paused = FALSE,
                              !.w.owner_absent_start = None,
                              !.w.brightness_dimmed_for_absence = FALSE,
                              !.w.awaiting_gesture = FALSE,
                              !.w.gesture_confirmed = FALSE],
                    "monitoring_resumed")

on_sleep_change(m, current_locked, current_sleeping) ==
    IF current_sleeping = m.w.system_sleeping
    THEN m
    ELSE IF current_sleeping
         THEN Toast([m EXCEPT !.w.system_sleeping = TRUE,
                              !.w.program_paused = TRUE,
                              !.w.owner_absent_start = None,
                              !.w.brightness_dimmed_for_absence = FALSE,
                              !.w.auto_lock_in_progress = FALSE,
                              !.w.auto_lock_grace_period_start = None,
                              !.w.awaiting_gesture = FALSE,
                              !.w.gesture_confirmed = FALSE],
                    "monitoring_paused")
         ELSE IF ~current_locked
              THEN Toast([m EXCEPT !.w.system_sleeping = FALSE,
                                   !.w.program_paused = FALSE,
                                   !.w.owner_absent_start = None,
                                   !.w.brightness_dimmed_for_absence = FALSE,
                                   !.w.awaiting_gesture = FALSE,
                                   !.w.gesture_confirmed = FALSE],
                         "monitoring_resumed")
              ELSE [m EXCEPT !.w.system_sleeping = FALSE]

check_system_state(m, current_locked, current_sleeping) ==
    on_sleep_change(on_lock_change(m, current_locked), current_locked, current_sleeping)

\* ------------------------------------------------------ gesture test

start_gesture_test(m, gesture_type, now) ==
    [m EXCEPT !.w.gesture_test_mode = TRUE,
              !.w.gesture_test_type = gesture_type,
              !.w.gesture_test_start = now,
              !.w.pitch_hist = <<>>]

\* Mutant: the timeout is reported and the test goes on.
check_gesture_test_timeout_reported(m, gesture, now) ==
    IF ~m.w.gesture_test_mode
    THEN m
    ELSE IF now - m.w.gesture_test_start > GestureTestTimeout
         THEN Toast(m, "gesture_test_timed_out")
         ELSE IF gesture = "none"
              THEN m
              ELSE Toast([m EXCEPT !.w.gesture_test_mode = FALSE],
                         IF gesture = m.w.gesture_test_type
                         THEN "gesture_test_passed" ELSE "gesture_test_failed")

\* Every verdict other than "none" ends the test, as passed or as failed.
check_gesture_test(m, gesture, now) ==
    IF ~m.w.gesture_test_mode
    THEN m
    ELSE IF now - m.w.gesture_test_start > GestureTestTimeout
         THEN Toast([m EXCEPT !.w.gesture_test_mode = FALSE], "gesture_test_timed_out")
         ELSE IF gesture = "none"
              THEN m
              ELSE Toast([m EXCEPT !.w.gesture_test_mode = FALSE],
                         IF gesture = m.w.gesture_test_type
                         THEN "gesture_test_passed" ELSE "gesture_test_failed")

\* ------------------------------------------------- gesture classifier

\* count_oscillations: the samples become +1 / -1 / 0 states, then the loop
\* counts the nonzero states that differ from the last nonzero state seen.
ThresholdState_inclusive(v, th) == IF v >= th THEN 1 ELSE IF v <= -th THEN -1 ELSE 0

ThresholdState(v, th) == IF v > th THEN 1 ELSE IF v < -th THEN -1 ELSE 0

count_oscillations(seq, th) ==
    LET states == [i \in 1..Len(seq) |-> ThresholdState(seq[i], th)]
        RECURSIVE Loop(_, _, _)
        Loop(i, count, last_nonzero) ==
            IF i > Len(states)
            THEN count
            ELSE LET st == states[i]
                 IN  Loop(i + 1,
                          IF st # 0 /\ st # last_nonzero /\ last_nonzero # 0
                          THEN count + 1 ELSE count,
                          IF st # 0 THEN st ELSE last_nonzero)
    IN  Loop(1, 0, 0)

\* The pair (is_nod, is_shake); samples and thresholds in 1/25 degree.
detect_gesture(m, pitch_hist, yaw_hist) ==
    IF Len(pitch_hist) < MinSamples \/ Len(yaw_hist) < MinSamples
    THEN <<FALSE, FALSE>>
    ELSE LET corrected_pitch == [i \in 1..Len(pitch_hist) |->
                                    pitch_hist[i] - m.w.baseline_pitch]
             corrected_yaw == [i \in 1..Len(yaw_hist) |->
                                  yaw_hist[i] - m.w.baseline_yaw]
             pitch_oscillations == count_oscillations(corrected_pitch, m.w.nod_threshold)
             yaw_oscillations == count_oscillations(corrected_yaw, m.w.shake_threshold)
         IN  <<pitch_oscillations >= MinOscillations /\ yaw_oscillations < MinOscillations,
               yaw_oscillations >= MinOscillations /\ pitch_oscillations < MinOscillations>>

\* ------------------------------------- gesture training, calibration

start_gesture_training(m, gesture_type, now) ==
    [m EXCEPT !.w.gesture_training_mode = TRUE,
              !.w.gesture_training_type = gesture_type,
              !.w.gesture_training_start = now,
              !.w.pitch_hist = <<>>,
              !.w.training_data[gesture_type] = <<>>]

start_gesture_calibration(m, now) ==
    [m EXCEPT !.w.calibration_mode = TRUE,
              !.w.calibration_start = now,
              !.w.pitch_hist = <<>>]

SeqSum(seq) == LET RECURSIVE S(_)
                   S(i) == IF i = 0 THEN 0 ELSE seq[i] + S(i - 1)
               IN  S(Len(seq))

\* Mutant: the floor is not applied.
trained_threshold_unfloored(floor, ranges) ==
    (15 * SeqSum(ranges)) \div Len(ranges)

\* max(floor, 0.6 * sum(ranges) / len(ranges)) in 1/25 degree; the division
\* is exact for the 5 patterns a completed episode holds.
trained_threshold(floor, ranges) ==
    LET scaled == (15 * SeqSum(ranges)) \div Len(ranges)
    IN  IF scaled > ThresholdScale * floor THEN scaled ELSE ThresholdScale * floor

complete_gesture_training(m) ==
    LET gesture_type == m.w.gesture_training_type
        ranges == m.w.training_data[gesture_type]
        done == IF Len(ranges) >= MinPatterns
                THEN Toast(IF gesture_type = "nod"
                           THEN [m EXCEPT !.w.nod_threshold =
                                              trained_threshold(NodFloor, ranges)]
                           ELSE [m EXCEPT !.w.shake_threshold =
                                              trained_threshold(ShakeFloor, ranges)],
                           "training_complete")
                ELSE Toast(m, "training_failed")
    IN  [done EXCEPT !.w.gesture_training_mode = FALSE]

\* in.range: max - min of the trained axis over the buffered samples (0 when
\* nothing is buffered).
check_gesture_training(m, in, now) ==
    IF ~m.w.gesture_training_mode
    THEN m
    ELSE IF now - m.w.gesture_training_start > TrainingTimeout
         THEN Toast([m EXCEPT !.w.gesture_training_mode = FALSE], "training_timed_out")
         ELSE LET gesture_type == m.w.gesture_training_type
                  c == IF in.range > MinTrainingRange
                       THEN [m EXCEPT !.w.training_data[gesture_type] =
                                          Append(@, in.range)]
                       ELSE m
              IN  IF Len(c.w.training_data[gesture_type]) >= PatternsNeeded
                  THEN complete_gesture_training(c)
                  ELSE c

\* in.enough: more than 10 samples are buffered on both axes; in.baseline:
\* their means.
\* len(pitch_hist) > 10 and len(yaw_hist) > 10: read off the window where the
\* frames feed it, an input of the tick where they do not.
enough_buffered(m, in) ==
    IF in.sampled THEN Len(m.w.pitch_hist) > CalibrationSamples ELSE in.enough

\* Mutant: the episode completes from 3 s on.
check_gesture_calibration_from_limit(m, in, now) ==
    IF ~m.w.calibration_mode
    THEN m
    ELSE IF now - m.w.calibration_start >= CalibrationSeconds
         THEN LET c == IF enough_buffered(m, in)
                       THEN Toast([m EXCEPT !.w.baseline_pitch = in.baseline[1],
                                            !.w.baseline_yaw = in.baseline[2]],
                                  "calibration_complete")
                       ELSE Toast(m, "calibration_failed")
              IN  [c EXCEPT !.w.calibration_mode = FALSE]
         ELSE m

check_gesture_calibration(m, in, now) ==
    IF ~m.w.calibration_mode
    THEN m
    ELSE IF now - m.w.calibration_start > CalibrationSeconds
         THEN LET c == IF enough_buffered(m, in)
                       THEN Toast([m EXCEPT !.w.baseline_pitch = in.baseline[1],
                                            !.w.baseline_yaw = in.baseline[2]],
                                  "calibration_complete")
                       ELSE Toast(m, "calibration_failed")
              IN  [c EXCEPT !.w.calibration_mode = FALSE]
         ELSE m

\* ------------------------------ presence, brightness and auto-lock

lock_windows_screen(m) == [m EXCEPT !.calls = Append(@, Call("lock", 0))]

\* Mutant: the brightness always comes from the settings.
owner_returned_from_settings(m, in) ==
    IF m.w.owner_absent_start # None \/ m.w.auto_lock_in_progress
    THEN Toast([restore_brightness(m, in.set_ok)
                   EXCEPT !.w.brightness_dimmed_for_absence = FALSE,
                          !.w.owner_absent_start = None,
                          !.w.auto_lock_in_progress = FALSE,
                          !.w.auto_lock_grace_period_start = None,
                          !.w.brightness_before_auto_lock = None],
               "owner_returned")
    ELSE m

owner_returned(m, in) ==
    IF m.w.owner_absent_start # None \/ m.w.auto_lock_in_progress
    THEN LET r == IF m.w.auto_lock_in_progress /\ m.w.brightness_before_auto_lock # None
                  THEN set_brightness(m, m.w.brightness_before_auto_lock, in.set_ok)
                  ELSE restore_brightness(m, in.set_ok)
         IN  Toast([r EXCEPT !.w.brightness_dimmed_for_absence = FALSE,
                             !.w.owner_absent_start = None,
                             !.w.auto_lock_in_progress = FALSE,
                             !.w.auto_lock_grace_period_start = None,
                             !.w.brightness_before_auto_lock = None],
                   "owner_returned")
    ELSE m

start_dimming(m, in, now) ==
    IF m.w.auto_lock_enabled /\ ~m.w.auto_lock_in_progress
    THEN LET snap == get_current_brightness(m, in.get_ok)
             d == set_brightness([m EXCEPT !.w.brightness_before_auto_lock = snap],
                                 0, in.set_ok)
         IN  Toast([d EXCEPT !.w.brightness_dimmed_for_absence = TRUE,
                             !.w.auto_lock_in_progress = TRUE,
                             !.w.auto_lock_grace_period_start = now],
                   "auto_lock_active")
    ELSE LET d == set_brightness(store_current_brightness(m, in.get_ok), 0, in.set_ok)
         IN  Toast([d EXCEPT !.w.brightness_dimmed_for_absence = TRUE],
                   "brightness_dimmed")

\* Mutant: the screen is locked before the brightness is set back.
grace_period_expired_lock_first(m, in) ==
    LET l == Toast(lock_windows_screen(m),
                   IF in.lock_ok THEN "screen_locked" ELSE "lock_failed")
        r == IF m.w.brightness_before_auto_lock # None
             THEN set_brightness(l, m.w.brightness_before_auto_lock, in.set_ok)
             ELSE restore_brightness(l, in.set_ok)
    IN  [r EXCEPT !.w.auto_lock_in_progress = FALSE,
                  !.w.auto_lock_grace_period_start = None,
                  !.w.brightness_before_auto_lock = None,
                  !.w.brightness_dimmed_for_absence = FALSE,
                  !.w.owner_absent_start = None]

grace_period_expired(m, in) ==
    LET r == IF m.w.brightness_before_auto_lock # None
             THEN set_brightness(m, m.w.brightness_before_auto_lock, in.set_ok)
             ELSE restore_brightness(m, in.set_ok)
        l == Toast(lock_windows_screen(r),
                   IF in.lock_ok THEN "screen_locked" ELSE "lock_failed")
    IN  [l EXCEPT !.w.auto_lock_in_progress = FALSE,
                  !.w.auto_lock_grace_period_start = None,
                  !.w.brightness_before_auto_lock = None,
                  !.w.brightness_dimmed_for_absence = FALSE,
                  !.w.owner_absent_start = None]

\* Mutant: the delay is compared with >= instead of >.
owner_absent_at_delay(m, in, now) ==
    IF m.w.owner_absent_start = None
    THEN Toast([m EXCEPT !.w.owner_absent_start = now], "owner_left")
    ELSE IF /\ ~m.w.brightness_dimmed_for_absence
            /\ now - m.w.owner_absent_start >= m.w.owner_absence_delay
         THEN start_dimming(m, in, now)
         ELSE IF /\ m.w.auto_lock_in_progress
                 /\ m.w.auto_lock_grace_period_start # None
                 /\ now - m.w.auto_lock_grace_period_start > m.w.auto_lock_grace_period
              THEN grace_period_expired(m, in)
              ELSE m

owner_absent(m, in, now) ==
    IF m.w.owner_absent_start = None
    THEN Toast([m EXCEPT !.w.owner_absent_start = now], "owner_left")
    ELSE IF /\ ~m.w.brightness_dimmed_for_absence
            /\ now - m.w.owner_absent_start > m.w.owner_absence_delay
         THEN start_dimming(m, in, now)
         ELSE IF /\ m.w.auto_lock_in_progress
                 /\ m.w.auto_lock_grace_period_start # None
                 /\ now - m.w.auto_lock_grace_period_start > m.w.auto_lock_grace_period
              THEN grace_period_expired(m, in)
              ELSE m

presence_control(m, in, now) ==
    IF in.owner_here THEN owner_returned(m, in) ELSE owner_absent(m, in, now)

\* ------------------------------------------ unknown-face confirmation

\* Mutant: the 2 s debounce is not applied.
open_confirmation_request_no_debounce(m, now) ==
    IF /\ ~m.w.awaiting_gesture
       /\ ~m.w.gesture_test_mode
    THEN [m EXCEPT !.w.last_unknown_ts = now,
                   !.w.awaiting_gesture = TRUE,
                   !.w.gesture_deadline = now + ConfirmWindow,
                   !.toasts = Append(@, "unknown_face_detected")]
    ELSE m

open_confirmation_request(m, now) ==
    IF /\ ~m.w.awaiting_gesture
       /\ ~m.w.gesture_test_mode
       /\ now - m.w.last_unknown_ts > DebounceSeconds
    THEN Toast([m EXCEPT !.w.last_unknown_ts = now,
                         !.w.awaiting_gesture = TRUE,
                         !.w.gesture_deadline = now + ConfirmWindow],
               "unknown_face_detected")
    ELSE m

trusted_session_notice(m, now) ==
    LET skipped == Toast(m, "alerts_skipped")
    IN  IF now - m.w.last_unknown_ts > NoticeInterval
        THEN Toast([skipped EXCEPT !.w.last_unknown_ts = now], "trusted_session_active")
        ELSE skipped

\* Mutant: a trusted face is handled like any other face.
unknown_face_handling_ignoring_trusted(m, in, now) ==
    IF in.faces /\ ~in.owner_here
    THEN IF m.kd.trusted_session_active
         THEN trusted_session_notice(m, now)
         ELSE open_confirmation_request(m, now)
    ELSE m

unknown_face_handling(m, in, now) ==
    IF in.faces /\ ~in.owner_here
    THEN IF in.trusted # NoUser
         THEN handle_trusted_user_session(m, in.trusted, now, in.save_ok)
         ELSE IF get_security_key_status(m).session_active
              THEN trusted_session_notice(m, now)
              ELSE open_confirmation_request(m, now)
    ELSE m

evaluate_gesture(m, in) ==
    IF in.gesture = "nod"
    THEN LET c == Toast([m EXCEPT !.w.awaiting_gesture = FALSE,
                                  !.w.gesture_confirmed = TRUE],
                        "nod_confirmed")
         IN  set_brightness(c, NodBrightness, in.set_ok)
    ELSE IF in.gesture = "shake"
         THEN Toast([m EXCEPT !.w.awaiting_gesture = FALSE,
                              !.w.gesture_confirmed = FALSE],
                    "shake_denied")
         ELSE m

confirmation_timeout(m, now) ==
    IF now > m.w.gesture_deadline /\ m.w.awaiting_gesture
    THEN Toast([m EXCEPT !.w.awaiting_gesture = FALSE], "confirmation_timed_out")
    ELSE m

\* The reminder before the deadline: the remaining time lies in (1.8, 2.0],
\* compared in tenths of a second; no field records that it was shown.
deadline_warning(m, now) ==
    LET remaining == m.w.gesture_deadline - now
    IN  IF /\ m.w.awaiting_gesture
           /\ 10 * remaining <= WarnFromTenths
           /\ 10 * remaining > WarnUntilTenths
        THEN Toast(m, "two_seconds_left")
        ELSE m

evaluate_awaiting(m, in, now) ==
    IF m.w.awaiting_gesture /\ ~m.w.gesture_test_mode
    THEN confirmation_timeout(deadline_warning(evaluate_gesture(m, in), now), now)
    ELSE m

\* ------------------------------------------------------ one iteration

\* The top of the loop: both checks run whether or not the loop is paused.
loop_prologue(m, current_locked, current_sleeping, now) ==
    check_security_key_timeout(check_system_state(m, current_locked, current_sleeping), now)

\* pitch_hist and yaw_hist, appended to and cleared together: the window of
\* the last HistMaxLen samples, each sample by the time it was received.  A
\* frame in which no head pose is found adds nothing.
append_sample(m, in, now) ==
    IF in.sampled
    THEN LET h == Append(m.w.pitch_hist, now)
         IN  [m EXCEPT !.w.pitch_hist =
                          IF Len(h) > HistMaxLen THEN SubSeq(h, 2, Len(h)) ELSE h]
    ELSE m

\* The tick from the episode checks to the unknown-face handling: what runs
\* before the awaiting request is evaluated.
before_awaiting(m, in, now) ==
    unknown_face_handling(
        presence_control(
            check_gesture_calibration(
                check_gesture_training(check_gesture_test(m, in.gesture, now),
                                       in, now),
                in, now),
            in, now),
        in, now)

\* The body of a processed tick, after the frame was read and the owner
\* matcher has answered; it ends where an exception leaves it.
process_frame(m, in, now) ==
    IF ~in.pose_ok
    THEN Raise(m)
    ELSE LET u == before_awaiting(append_sample(m, in, now), in, now)
         IN  IF u.w.run_active THEN evaluate_awaiting(u, in, now) ELSE u

\* What the matchers can report of one frame: the owner, nobody, an
\* unknown face, or a trusted identity.
Obs(owner_here, faces, trusted) ==
    [owner_here |-> owner_here, faces |-> faces, trusted |-> trusted]

SeesOwner == Obs(TRUE, TRUE, NoUser)

SeesNobody == Obs(FALSE, FALSE, NoUser)

SeesUnknown == Obs(FALSE, TRUE, NoUser)

SeesTrusted == {Obs(FALSE, TRUE, u) : u \in Users}

Observations == {SeesOwner, SeesNobody, SeesUnknown} \cup SeesTrusted

\* Collaborator failures of one tick: none, screen_brightness_control
\* raising (get and set), or LockWorkStation raising.
Faults == {"none", "brightness", "lock"}

\* As well: the FaceMesh call of _estimate_head_angles raising, or
\* save_settings raising.
AllFaults == Faults \cup {"pose", "settings"}

\* The inputs of one tick, for the observations O, classifier verdicts G
\* and faults F a specification explores.
TickInputs(O, G, F) ==
    {[owner_here |-> o.owner_here, faces |-> o.faces, trusted |-> o.trusted,
      gesture |-> g, set_ok |-> f # "brightness", get_ok |-> f # "brightness",
      lock_ok |-> f # "lock", pose_ok |-> f # "pose", save_ok |-> f # "settings",
      sampled |-> FALSE,
      range |-> 0, enough |-> TRUE,
      baseline |-> <<0, 0>>] : o \in O, g \in G, f \in F}

\* What is_system_locked() and is_system_sleeping() can report.
SystemStates == [locked : BOOLEAN, sleeping : BOOLEAN]

Awake == {[locked |-> FALSE, sleeping |-> FALSE]}

\* Clock advances between two loop iterations.
Steps == {1, 2}

\* ------------------------------------------------------------ history
\* hist records what the properties need of the past; no operation reads it.
\*   step            kind of the last step
\*   run_start       clock of the first tick of the current uninterrupted
\*                   absence (owner undetected on every tick, no lock or
\*                   sleep transition observed, no pause)
\*   zero_calls      set_brightness(0) calls issued in that absence (<= 2)
\*   lock_calls      lock_windows_screen calls issued in that absence (<= 2)
\*   dim_snapshot    brightness snapshotted by the absence path when it set
\*                   the screen to 0, until a later step issues the call
\*                   that sets the screen back to it
\*   request_at      clock at which the latest confirmation request opened
\*   prev_request_at clock at which the one before it opened
\*   open_obs        what the matchers reported on the tick that opened it
\*   open_awaiting   a request was awaiting when the latest one was opened
\*   expired_user    trusted user whose session was found expired, with no
\*                   successful key verification since
\*   set_called      set_security_key(input.key, input.minutes) has been called
\*   warnings        expiry warnings emitted since the worker's session was
\*                   started or extended (<= 2)

NoInput == <<>>

\* The faces of a frame, each by its encoding, and whether they can be
\* encoded.
Frame(boxes, encodable) == [boxes |-> boxes, encodable |-> encodable]

\* Two names that differ at most in the case of their letters.
SameIgnoringCase(a, b) ==
    /\ Len(a) = Len(b)
    /\ \A i \in 1..Len(a) :
          \/ a[i] = b[i]
          \/ {a[i], b[i]} \in {{"a", "A"}, {"b", "B"}}

\* The name typed into the dialog is that of an entry, ignoring case.
NameTaken(faces, entered) ==
    \E i \in 1..Len(faces) : SameIgnoringCase(faces[i].name, strip(entered))

\* What a frame shows: no face, several, one that is within the same-person
\* distance of an entry, or one that is new.
FrameCase(faces, frame) ==
    IF Len(frame.boxes) = 0 THEN "no_face"
    ELSE IF Len(frame.boxes) > 1 THEN "many_faces"
    ELSE IF \E i \in 1..Len(faces) :
               /\ faces[i].encoding - frame.boxes[1] < 6
               /\ frame.boxes[1] - faces[i].encoding < 6
         THEN "known_face"
         ELSE "new_face"

NoObs == [owner_here |-> FALSE, faces |-> FALSE, trusted |-> NoUser]

InitHist ==
    [step |-> "init", run_start |-> None, zero_calls |-> 0, lock_calls |-> 0,
     dim_snapshot |-> None, request_at |-> None, prev_request_at |-> None, open_obs |-> NoObs,
     open_awaiting |-> FALSE, expired_user |-> NoUser, set_called |-> FALSE,
     warnings |-> 0, restore_run |-> 0, restore_calls |-> 0,
     add_case |-> "none", name_taken |-> FALSE]

Cap2(n) == IF n > 2 THEN 2 ELSE n

SessionExpiredFor(m, in, now) ==
    /\ in.faces /\ ~in.owner_here /\ in.trusted # NoUser
    /\ m.w.security_key_enabled
    /\ m.w.trusted_session_active
    /\ m.w.trusted_user_name = in.trusted
    /\ m.w.security_key_timeout - (now - m.w.trusted_session_start) <= 0

\* check_system_state has observed a lock or sleep transition in this step.
SystemChanged(w) ==
    \/ w.system_locked # worker.system_locked
    \/ w.system_sleeping # worker.system_sleeping

\* before: the machine after the loop prologue; after: at the end of the tick.
HistAfterTick(h, before, after, in, now) ==
    LET opened == "unknown_face_detected" \in Range(after.toasts)
        fresh == [h EXCEPT !.run_start = None, !.zero_calls = 0, !.lock_calls = 0]
        h0 == IF SystemChanged(after.w) THEN fresh ELSE h
        absent == [h0 EXCEPT
            !.run_start = IF @ = None THEN now ELSE @,
            !.zero_calls = Cap2(@ + Count(after.calls, Call("set_brightness", 0))),
            !.lock_calls = Cap2(@ + Count(after.calls, Call("lock", 0)))]
        h1 == IF in.owner_here THEN fresh ELSE absent
        h2 == IF opened
              THEN [h1 EXCEPT !.prev_request_at = h.request_at,
                              !.request_at = now,
                              !.open_obs = [owner_here |-> in.owner_here,
                                            faces |-> in.faces,
                                            trusted |-> in.trusted],
                              !.open_awaiting = before.w.awaiting_gesture]
              ELSE h1
        h3 == IF SessionExpiredFor(after, in, now)
              THEN [h2 EXCEPT !.expired_user = in.trusted]
              ELSE h2
        snapshot == IF "auto_lock_active" \in Range(after.toasts)
                    THEN after.w.brightness_before_auto_lock
                    ELSE after.settings.brightness_before_absence
        h4 == IF {"auto_lock_active", "brightness_dimmed"} \cap Range(after.toasts) # {}
              THEN [h3 EXCEPT !.dim_snapshot = IF @ = None THEN snapshot ELSE @]
              ELSE IF /\ h.dim_snapshot # None
                      /\ Call("set_brightness", h.dim_snapshot) \in Range(after.calls)
                   THEN [h3 EXCEPT !.dim_snapshot = None]
                   ELSE h3
        h5 == [h4 EXCEPT !.warnings =
                  Cap2((IF "session_started" \in Range(after.toasts) THEN 0 ELSE @)
                       + Count(after.toasts, "security_key_warning"))]
    IN  [h5 EXCEPT !.step = "tick", !.restore_run = 0, !.restore_calls = 0]

HistAfterPause(h) ==
    [h EXCEPT !.step = "paused", !.restore_run = 0, !.restore_calls = 0, !.run_start = None, !.zero_calls = 0, !.lock_calls = 0]

HistAfterSkip(h, after) ==
    IF SystemChanged(after.w)
    THEN [h EXCEPT !.step = "skipped", !.restore_run = 0, !.restore_calls = 0, !.run_start = None, !.zero_calls = 0,
                   !.lock_calls = 0]
    ELSE [h EXCEPT !.step = "skipped", !.restore_run = 0, !.restore_calls = 0]

\* ------------------------------------------------------------ actions

Commit(m) ==
    /\ worker' = m.w
    /\ settings' = m.settings
    /\ key_data' = m.kd
    /\ screen' = m.screen
    /\ calls' = m.calls
    /\ toasts' = m.toasts
    /\ ui_queue' = m.queue
    /\ trusted_file' = m.faces_file
    /\ result' = m.ret
    /\ input' = input

InitWorker(locked, sleeping, auto_lock, key_hash) ==
    [cap_opened |-> TRUE,
     run_active |-> TRUE,
     run_at |-> "loop",
     trusted_faces |-> <<>>,
     pitch_hist |-> <<>>,
     system_locked |-> locked,
     system_sleeping |-> sleeping,
     program_paused |-> locked \/ sleeping,
     owner_absent_start |-> None,
     brightness_dimmed_for_absence |-> FALSE,
     auto_lock_enabled |-> auto_lock,
     owner_absence_delay |-> OwnerAbsenceDelay,
     auto_lock_grace_period |-> GracePeriod,
     auto_lock_grace_period_start |-> None,
     brightness_before_auto_lock |-> None,
     auto_lock_in_progress |-> FALSE,
     last_unknown_ts |-> 0,
     awaiting_gesture |-> FALSE,
     gesture_deadline |-> 0,
     gesture_confirmed |-> FALSE,
     gesture_test_mode |-> FALSE,
     gesture_test_type |-> "none",
     gesture_test_start |-> None,
     gesture_training_mode |-> FALSE,
     gesture_training_type |-> "none",
     gesture_training_start |-> None,
     training_data |-> [nod |-> <<>>, shake |-> <<>>],
     calibration_mode |-> FALSE,
     calibration_start |-> None,
     baseline_pitch |-> 0,
     baseline_yaw |-> 0,
     nod_threshold |-> ThresholdScale * DefaultNodThreshold,
     shake_threshold |-> ThresholdScale * DefaultShakeThreshold,
     security_key_enabled |-> TRUE,
     security_key_timeout |-> SessionTimeout,
     security_key_hash |-> key_hash,
     trusted_session_active |-> FALSE,
     trusted_session_start |-> 0,
     trusted_user_name |-> NoUser,
     security_key_warning_shown |-> FALSE,
     security_key_dialog |-> NoUser]

InitSettings ==
    [brightness_before_absence |-> 100,
     brightness_restored |-> TRUE,
     current_brightness |-> 100,
     trusted_session_active |-> FALSE,
     trusted_session_start |-> 0,
     trusted_user_name |-> NoUser]

InitKeyData ==
    [security_key_hash |-> hash_security_key(OwnerKey),
     security_key_enabled |-> TRUE,
     security_key_timeout |-> SessionTimeout,
     trusted_session_active |-> FALSE,
     trusted_session_start |-> 0,
     trusted_user_name |-> NoUser]

InitWith(Sys, AutoLock) ==
    /\ \E sys \in Sys, auto_lock \in AutoLock :
          worker = InitWorker(sys.locked, sys.sleeping, auto_lock, hash_security_key(OwnerKey))
    /\ settings = InitSettings
    /\ key_data = InitKeyData
    /\ screen = StartBrightness
    /\ clock = StartTime
    /\ calls = <<>>
    /\ toasts = <<>>
    /\ ui_queue = <<>>
    /\ result = <<>>
    /\ input = NoInput
    /\ trusted_file = <<>>
    /\ hist = InitHist

\* The loop finds itself paused: it releases the camera and waits.
PausedIteration(Sys, horizon) ==
    \E dt \in Steps, sys \in Sys :
        LET now == clock + dt
            m == loop_prologue(Machine, sys.locked, sys.sleeping, now)
        IN  /\ worker.run_active
            /\ now <= StartTime + horizon
            /\ m.w.program_paused
            /\ clock' = now
            /\ Commit([m EXCEPT !.w.cap_opened = FALSE])
            /\ hist' = HistAfterPause(hist)

\* The loop is not paused but gets no frame: the camera cannot be reopened,
\* or the read fails.
SkippedIteration(Sys, horizon) ==
    \E dt \in Steps, sys \in Sys, reopened \in BOOLEAN :
        LET now == clock + dt
            m == loop_prologue(Machine, sys.locked, sys.sleeping, now)
        IN  /\ worker.run_active
            /\ now <= StartTime + horizon
            /\ ~m.w.program_paused
            /\ clock' = now
            /\ Commit([m EXCEPT !.w.cap_opened = @ \/ reopened])
            /\ hist' = HistAfterSkip(hist, m)

\* A processed tick, the clock having advanced by one of the steps D.
TickBy(D, Sys, Ins, horizon) ==
    \E dt \in D, sys \in Sys, in \in Ins :
        LET now == clock + dt
            m == loop_prologue(Machine, sys.locked, sys.sleeping, now)
            after == process_frame([m EXCEPT !.w.cap_opened = TRUE], in, now)
        IN  /\ worker.run_active
            /\ now <= StartTime + horizon
            /\ ~m.w.program_paused
            /\ clock' = now
            /\ Commit(after)
            /\ hist' = HistAfterTick(hist, m, after, in, now)

\* A processed tick.
Tick(Sys, Ins, horizon) == TickBy(Steps, Sys, Ins, horizon)

\* CameraPreview / tray: the user starts a gesture test.
StartGestureTest(Types) ==
    \E gesture_type \in Types :
        /\ Commit(start_gesture_test(Machine, gesture_type, clock))
        /\ hist' = [hist EXCEPT !.step = "ui"]
        /\ UNCHANGED clock

\* CameraPreview: the user starts the training of a gesture.
StartGestureTraining(Types) ==
    \E gesture_type \in Types :
        /\ Commit(start_gesture_training(Machine, gesture_type, clock))
        /\ hist' = [hist EXCEPT !.step = "ui"]
        /\ UNCHANGED clock

\* CameraPreview: the user starts a calibration.
StartGestureCalibration ==
    /\ Commit(start_gesture_calibration(Machine, clock))
    /\ hist' = [hist EXCEPT !.step = "ui"]
    /\ UNCHANGED clock

\* App.restore_brightness, from the tray menu or the override hotkey.
RestoreBrightness ==
    \E set_ok \in BOOLEAN :
        LET m == Toast(restore_brightness(Machine, set_ok), "brightness_restored")
        IN  /\ Commit(m)
            /\ hist' = [hist EXCEPT !.step = "restore_brightness",
                                    !.restore_run = Cap2(@ + 1),
                                    !.restore_calls = Cap2(@ + Len(m.calls))]
            /\ UNCHANGED clock

\* _detect_gesture over the buffered samples input.pitch_hist, input.yaw_hist.
DetectGesture ==
    /\ Commit([Machine EXCEPT !.ret =
                   detect_gesture(Machine, input.pitch_hist, input.yaw_hist)])
    /\ hist' = [hist EXCEPT !.step = "detect_gesture"]
    /\ UNCHANGED clock

\* The UI thread runs a deferred _create_security_key_dialog.
CreateSecurityKeyDialog ==
    /\ ui_queue # <<>>
    /\ Commit([Machine EXCEPT !.w.security_key_dialog = Head(ui_queue),
                              !.queue = Tail(ui_queue)])
    /\ hist' = [hist EXCEPT !.step = "ui"]
    /\ UNCHANGED clock

\* SecurityKeyDialog.verify_key; a verified dialog closes itself.
DialogVerifyKey ==
    \E entered_key \in Keys :
        LET m == worker_verify_security_key(Machine, entered_key, clock)
            ok == "security_key_verified" \in Range(m.toasts)
        IN  /\ worker.security_key_dialog # NoUser
            /\ Commit(IF ok THEN [m EXCEPT !.w.security_key_dialog = NoUser] ELSE m)
            /\ hist' = [hist EXCEPT !.step = "dialog_verify",
                                    !.expired_user = IF ok THEN NoUser ELSE @,
                                    !.warnings = IF ok THEN 0 ELSE @]
            /\ UNCHANGED clock

\* The allow-list: names that differ in case or in surrounding blanks, and
\* frames with no face, two faces, or one face whose encoding lies at
\* distance 0.5, 0.6 or more from the others.
EnteredNames ==
    {<<"a">>, <<"A">>, <<"b">>, <<" ", "A", "b">>, <<"a", "B">>, <<" ">>}

Encodings == {0, 5, 6, 12}

Frames ==
    {Frame(<<>>, TRUE), Frame(<<0, 12>>, TRUE)}
        \cup {Frame(<<e>>, TRUE) : e \in Encodings} \cup {Frame(<<0>>, FALSE)}

\* CameraPreview: "Add Trusted Face" with the name typed and the frame the
\* worker holds.
AddTrustedFaceDialog ==
    \E entered \in EnteredNames, frame \in Frames, save_ok \in BOOLEAN :
        LET called == strip(entered) # <<>> /\ ~NameTaken(worker.trusted_faces, entered)
        IN  /\ Commit(add_trusted_face_dialog(Machine, entered, frame, save_ok))
            /\ hist' = [hist EXCEPT
                   !.step = IF called THEN "add_trusted_face" ELSE "add_dialog",
                   !.name_taken = NameTaken(worker.trusted_faces, entered),
                   !.add_case = IF called
                                THEN FrameCase(worker.trusted_faces, frame)
                                ELSE "none"]
            /\ UNCHANGED clock

\* TrustedFacesWindow: "Remove" on an entry of the list, confirmed.
RemoveSelected ==
    \E face \in Range(worker.trusted_faces) \cup Range(trusted_file),
       save_ok \in BOOLEAN :
        /\ Commit(remove_selected(Machine, face.name, save_ok))
        /\ hist' = [hist EXCEPT !.step = "remove_trusted_face"]
        /\ UNCHANGED clock

\* TrustedFacesWindow: "Refresh".
RefreshList ==
    /\ Commit(refresh_list(Machine))
    /\ hist' = [hist EXCEPT !.step = "ui"]
    /\ UNCHANGED clock

\* SettingsWindow.save_settings: the user ticks or clears "security key".
SaveSettings ==
    \E security_key_checked \in BOOLEAN :
        /\ Commit(settings_window_save(Machine, security_key_checked))
        /\ hist' = [hist EXCEPT !.step = "ui"]
        /\ UNCHANGED clock

\* SecurityKeyDialog.cancel_dialog (auto_close has the same body).
DialogCancel ==
    /\ worker.security_key_dialog # NoUser
    /\ Commit([worker_end_trusted_session(Machine) EXCEPT !.w.security_key_dialog = NoUser])
    /\ hist' = [hist EXCEPT !.step = "ui"]
    /\ UNCHANGED clock

\* SecurityStatusDialog.enter_security_key: a verified key starts a session.
EnterSecurityKey ==
    \E key \in Keys :
        /\ get_security_key_status(Machine).configured
        /\ ~get_security_key_status(Machine).session_active
        /\ module_verify_security_key(Machine, key)
        /\ Commit(start_trusted_session(Machine, "Trusted User", clock))
        /\ hist' = [hist EXCEPT !.step = "ui", !.expired_user = NoUser]
        /\ UNCHANGED clock

\* SecurityStatusDialog.end_current_session.
EndCurrentSession ==
    /\ get_security_key_status(Machine).session_active
    /\ Commit(module_end_trusted_session(Machine))
    /\ hist' = [hist EXCEPT !.step = "ui"]
    /\ UNCHANGED clock

\* set_security_key(input.key, input.minutes), as the tray menu and the
\* tests call it.
SetSecurityKey ==
    /\ Commit(set_security_key(Machine, input.key, input.minutes))
    /\ hist' = [hist EXCEPT !.step = "set_security_key", !.set_called = TRUE]
    /\ UNCHANGED clock

\* verify_security_key(key) for one of the two keys of the input.
VerifySecurityKey ==
    \E which \in {"key", "other_key"} :
        /\ Commit([Machine EXCEPT !.ret = verify_security_key(Machine, input[which])])
        /\ hist' = [hist EXCEPT !.step = "verify_" \o which]
        /\ UNCHANGED clock

\* ----------------------------------------------------- specifications

\* Presence, brightness, auto-lock and pause / resume: the owner comes and
\* goes, the system is locked, put to sleep and resumed, actuators fail.
PresenceInputs == TickInputs({SeesOwner, SeesNobody}, {"none"}, Faults)

InitPresence == InitWith(SystemStates, BOOLEAN)

NextPresence ==
    \/ PausedIteration(SystemStates, PresenceHorizon)
    \/ SkippedIteration(SystemStates, PresenceHorizon)
    \/ Tick(SystemStates, PresenceInputs, PresenceHorizon)

SpecPresence == InitPresence /\ [][NextPresence]_vars

\* The trusted-user session of the worker and the trusted session of
\* security_key.json: every observation of the matchers, the key dialog and
\* the security status dialog; the system stays awake and unlocked.
SessionInputs == TickInputs(Observations, {"none"}, {"none"})

InitSession == InitWith(Awake, {FALSE})

NextSession ==
    \/ Tick(Awake, SessionInputs, SessionHorizon)
    \/ CreateSecurityKeyDialog
    \/ DialogVerifyKey
    \/ DialogCancel
    \/ EnterSecurityKey
    \/ EndCurrentSession

SpecSession == InitSession /\ [][NextSession]_vars

\* The confirmation request: unknown faces come and go, the classifier
\* reports nods and shakes, the system is locked and unlocked, a gesture test
\* is started, a key-entry session suppresses the alerts.
LockStates == {sys \in SystemStates : ~sys.sleeping}

ConfirmInputs == TickInputs({SeesNobody, SeesUnknown}, Gestures, {"none"})

InitConfirm == InitWith(LockStates, {FALSE})

NextConfirm ==
    \/ PausedIteration(LockStates, ConfirmHorizon)
    \/ Tick(LockStates, ConfirmInputs, ConfirmHorizon)
    \/ StartGestureTest({"nod"})
    \/ EnterSecurityKey

SpecConfirm == InitConfirm /\ [][NextConfirm]_vars

\* The gesture test against the confirmation request: the owner or an
\* unknown face is in the frame, the user starts gesture tests.
GestureTestInputs == TickInputs({SeesOwner, SeesUnknown}, Gestures, {"none"})

InitGestureTest == InitWith(Awake, {FALSE})

NextGestureTest ==
    \/ Tick(Awake, GestureTestInputs, GestureTestHorizon)
    \/ StartGestureTest({"nod", "shake"})

SpecGestureTest == InitGestureTest /\ [][NextGestureTest]_vars

\* The security-key record: a key is set and keys are verified, for every
\* pair of typed keys up to MaxKeyLen characters.  The record starts as
\* load_security_key_data's default, as a record holding OwnerKey, or as
\* that record with the key disabled.
KeyStrings == UNION {[1..n -> Chars] : n \in 0..MaxKeyLen}

KeyStores ==
    {[InitKeyData EXCEPT !.security_key_hash = NoHash],
     InitKeyData,
     [InitKeyData EXCEPT !.security_key_enabled = FALSE]}

InitKey ==
    /\ worker = InitWorker(FALSE, FALSE, FALSE, hash_security_key(OwnerKey))
    /\ settings = InitSettings
    /\ key_data \in KeyStores
    /\ screen = StartBrightness
    /\ clock = StartTime
    /\ calls = <<>>
    /\ toasts = <<>>
    /\ ui_queue = <<>>
    /\ result = <<>>
    /\ input \in [key : KeyStrings, other_key : KeyStrings, minutes : {10}]
    /\ trusted_file = <<>>
    /\ hist = InitHist

NextKey ==
    \/ SetSecurityKey
    \/ VerifySecurityKey

SpecKey == InitKey /\ [][NextKey]_vars

\* The episodes the user can start from the preview window, against the
\* confirmation request: the owner or an unknown face is in the frame.
EpisodeInputs == TickInputs({SeesOwner, SeesUnknown}, {"none"}, {"none"})

InitEpisodes == InitWith(Awake, {FALSE})

NextEpisodes ==
    \/ Tick(Awake, EpisodeInputs, EpisodeHorizon)
    \/ StartGestureTest({"nod"})
    \/ StartGestureTraining({"nod"})
    \/ StartGestureCalibration

SpecEpisodes == InitEpisodes /\ [][NextEpisodes]_vars

\* The allow-list under the add dialog and the trusted-faces window.
InitTrusted == InitWith(Awake, {FALSE})

NextTrusted ==
    \/ AddTrustedFaceDialog
    \/ RemoveSelected
    \/ RefreshList

SpecTrusted == InitTrusted /\ [][NextTrusted]_vars

\* Every collaborator failure of a tick, whoever is in the frame.
FaultInputs ==
    TickInputs({SeesOwner, SeesNobody, SeesUnknown, Obs(FALSE, TRUE, "alice")},
               {"none"}, AllFaults)

InitFaults == InitWith(Awake, BOOLEAN)

NextFaults == Tick(Awake, FaultInputs, FaultHorizon)

SpecFaults == InitFaults /\ [][NextFaults]_vars

\* The key dialog of a trusted identity whose session runs out, with a
\* settings file that holds a key hash or none, while the settings window
\* switches the security key off and on.
KeySwitchInputs == TickInputs({SeesOwner, Obs(FALSE, TRUE, "alice")}, {"none"}, {"none"})

InitKeySwitch ==
    /\ \E key_hash \in {NoHash, hash_security_key(OwnerKey)} :
          worker = InitWorker(FALSE, FALSE, FALSE, key_hash)
    /\ settings = InitSettings
    /\ key_data = InitKeyData
    /\ screen = StartBrightness
    /\ clock = StartTime
    /\ calls = <<>>
    /\ toasts = <<>>
    /\ ui_queue = <<>>
    /\ result = <<>>
    /\ input = NoInput
    /\ trusted_file = <<>>
    /\ hist = InitHist

NextKeySwitch ==
    \/ Tick(Awake, KeySwitchInputs, KeySwitchHorizon)
    \/ CreateSecurityKeyDialog
    \/ DialogVerifyKey
    \/ SaveSettings

SpecKeySwitch == InitKeySwitch /\ [][NextKeySwitch]_vars

\* The owner comes and goes while the brightness override is used; the
\* settings file of an earlier run may have left a brightness to restore.
BrightnessInputs == TickInputs({SeesOwner, SeesNobody}, {"none"}, {"none", "brightness"})

InitBrightness ==
    /\ worker = InitWorker(FALSE, FALSE, FALSE, hash_security_key(OwnerKey))
    /\ settings \in {InitSettings,
                      [InitSettings EXCEPT !.brightness_restored = FALSE,
                                           !.brightness_before_absence = 40]}
    /\ key_data = InitKeyData
    /\ screen = StartBrightness
    /\ clock = StartTime
    /\ calls = <<>>
    /\ toasts = <<>>
    /\ ui_queue = <<>>
    /\ result = <<>>
    /\ input = NoInput
    /\ trusted_file = <<>>
    /\ hist = InitHist

NextBrightness ==
    \/ Tick(Awake, BrightnessInputs, BrightnessHorizon)
    \/ RestoreBrightness

SpecBrightness == InitBrightness /\ [][NextBrightness]_vars

\* Training episodes: the owner sits in front of the camera and every frame
\* shows a movement range, in degrees, that is too small to be recorded,
\* gives a threshold below the floors, or gives one above them; a recording
\* can also follow one of the two worked examples.
TrainingRanges == {5, 13, 21}

ExampleRanges == {<<10, 12, 11, 9, 13>>, <<20, 22, 21, 19, 23>>}

RecordedRanges ==
    IF worker.gesture_training_mode
    THEN worker.training_data[worker.gesture_training_type]
    ELSE <<>>

TrainingInputs ==
    {[in EXCEPT !.range = r] :
        in \in TickInputs({SeesOwner}, {"none"}, {"none"}),
        r \in TrainingRanges \cup
              {e[Len(RecordedRanges) + 1] :
                  e \in {x \in ExampleRanges :
                            /\ Len(RecordedRanges) < Len(x)
                            /\ SubSeq(x, 1, Len(RecordedRanges)) = RecordedRanges}}}

InitTraining == InitWith(Awake, {FALSE})

NextTraining ==
    \/ Tick(Awake, TrainingInputs, TrainingHorizon)
    \/ StartGestureTraining({"nod", "shake"})

SpecTraining == InitTraining /\ [][NextTraining]_vars

\* The classifier over sample windows of MinSamples - 1 and MinSamples
\* samples: equal leading samples followed by FreeSamples free ones.  Either
\* the worker has its initial baseline and thresholds and the pitch is the
\* full axis, or it has a calibrated baseline and the trained floors and
\* the yaw is.  The full axis starts neutral or beyond the threshold and its
\* free samples lie just beyond or exactly on either threshold; the other
\* axis starts neutral and its free samples lie just beyond a threshold.
Calibrations ==
    {[baseline_pitch |-> 0, baseline_yaw |-> 0,
      nod_threshold |-> ThresholdScale * DefaultNodThreshold,
      shake_threshold |-> ThresholdScale * DefaultShakeThreshold,
      full_axis |-> "pitch"],
     [baseline_pitch |-> 75, baseline_yaw |-> -50,
      nod_threshold |-> ThresholdScale * NodFloor,
      shake_threshold |-> ThresholdScale * ShakeFloor,
      full_axis |-> "yaw"]}

AxisSamples(baseline, th, full) ==
    {baseline + th + 1, baseline - th - 1}
        \cup (IF full THEN {baseline + th, baseline - th} ELSE {})

LeadingSamples(baseline, th, full) ==
    {baseline} \cup (IF full THEN {baseline + th + 1} ELSE {})

Windows(n, baseline, th, full) ==
    {[i \in 1..(n - FreeSamples) |-> lead] \o free :
        lead \in LeadingSamples(baseline, th, full),
        free \in [1..FreeSamples -> AxisSamples(baseline, th, full)]}

InitClassifier ==
    /\ \E c \in Calibrations :
          /\ worker = [InitWorker(FALSE, FALSE, FALSE, hash_security_key(OwnerKey))
                          EXCEPT !.baseline_pitch = c.baseline_pitch,
                                 !.baseline_yaw = c.baseline_yaw,
                                 !.nod_threshold = c.nod_threshold,
                                 !.shake_threshold = c.shake_threshold]
          /\ \E n \in {MinSamples - 1, MinSamples} :
                input \in [pitch_hist : Windows(n, c.baseline_pitch, c.nod_threshold,
                                                 c.full_axis = "pitch"),
                           yaw_hist : Windows(n, c.baseline_yaw, c.shake_threshold,
                                               c.full_axis = "yaw")]
    /\ settings = InitSettings
    /\ key_data = InitKeyData
    /\ screen = StartBrightness
    /\ clock = StartTime
    /\ calls = <<>>
    /\ toasts = <<>>
    /\ ui_queue = <<>>
    /\ result = <<>>
    /\ trusted_file = <<>>
    /\ hist = InitHist

NextClassifier == DetectGesture

SpecClassifier == InitClassifier /\ [][NextClassifier]_vars

\* A trusted identity that stays in view for the whole of a session with
\* the default timeout of 600 s: ticks come 1 s, 30 s or 240 s apart, the
\* UI thread opens the key dialog when it is asked to.
WarningSteps == {1, 30, 240}

WarningInputs == TickInputs({Obs(FALSE, TRUE, "alice")}, {"none"}, {"none"})

InitWarning ==
    /\ worker = [InitWorker(FALSE, FALSE, FALSE, hash_security_key(OwnerKey))
                    EXCEPT !.security_key_timeout = DefaultSessionTimeout]
    /\ settings = InitSettings
    /\ key_data = InitKeyData
    /\ screen = StartBrightness
    /\ clock = StartTime
    /\ calls = <<>>
    /\ toasts = <<>>
    /\ ui_queue = <<>>
    /\ result = <<>>
    /\ input = NoInput
    /\ trusted_file = <<>>
    /\ hist = InitHist

NextWarning ==
    \/ TickBy(WarningSteps, Awake, WarningInputs, WarningHorizon)
    \/ CreateSecurityKeyDialog

SpecWarning == InitWarning /\ [][NextWarning]_vars

\* ------------------------------------------------------------ claims

LockCall == Call("lock", 0)

\* The last step was a processed tick that saw the owner / did not see it.
OwnerSeenOnTick == hist.step = "tick" /\ hist.run_start = None

OwnerMissedOnTick == hist.step = "tick" /\ hist.run_start # None

\* C1 as stated: during one sustained absence (owner undetected on every
\* tick, no pause) the lock actuator is invoked at most once, however long
\* the absence lasts, and a lock call comes right after the call that sets
\* the brightness back.
C1_LockOncePerAbsence ==
    /\ hist.lock_calls <= 1
    /\ LockCall \in Range(calls) =>
          Len(calls) = 2 /\ calls[1].op = "set_brightness" /\ calls[2] = LockCall

\* C1 as amended: the lock actuator is invoked exactly once per armed
\* auto-lock sequence: only by a tick on which the sequence is armed and
\* more than auto_lock_grace_period has passed since it was armed, on the
\* first such tick that misses the owner while the screen is still dimmed
\* for the absence (no lock or sleep transition being observed by it), right
\* after the call that sets the
\* brightness to the value snapshotted when the screen was dimmed; that tick
\* disarms the sequence and clears the absence, whatever the lock call
\* returns, so an absence that goes on starts a new sequence.
C1_LockOncePerArming ==
    [][LET elapsed == /\ worker.auto_lock_in_progress
                      /\ worker.auto_lock_grace_period_start # None
                      /\ clock' - worker.auto_lock_grace_period_start
                            > worker.auto_lock_grace_period
                      /\ ~SystemChanged(worker')
       IN  /\ LockCall \in Range(calls') =>
                /\ elapsed
                /\ OwnerMissedOnTick'
                /\ calls' = <<Call("set_brightness", worker.brightness_before_auto_lock),
                              LockCall>>
                /\ ~worker'.auto_lock_in_progress
                /\ worker'.owner_absent_start = None
           /\ (/\ elapsed
                /\ worker.brightness_dimmed_for_absence
                /\ worker.owner_absent_start # None
                /\ OwnerMissedOnTick') => LockCall \in Range(calls')
      ]_vars

\* A tick has just restored the brightness and locked the screen.
C1_Witness ==
    /\ calls = <<Call("set_brightness", StartBrightness), LockCall>>
    /\ hist.lock_calls = 1
    /\ ~worker.auto_lock_in_progress

\* C2 as stated: once the absence path has set the brightness to 0, a tick
\* that sees the owner does not leave the screen at 0 with the dimming
\* unrestored: the call that sets the brightness back to the snapshot has
\* been issued by then.
C2_RestoredWhenOwnerSeen ==
    OwnerSeenOnTick => ~(hist.dim_snapshot # None /\ screen = 0)

\* A confirmation request was opened by the last step.
RequestOpened == "unknown_face_detected" \in Range(toasts)

\* The worker's trusted-user session has time remaining.
WorkerSessionValid ==
    /\ worker.trusted_session_active
    /\ worker.security_key_timeout - (clock - worker.trusted_session_start) > 0

\* C3 as stated: once the session of a trusted user was found expired, that
\* user has no session with time remaining until a key verification has
\* succeeded.
C3_NoSessionUntilKeyVerified ==
    hist.expired_user # NoUser =>
        ~(WorkerSessionValid /\ worker.trusted_user_name = hist.expired_user)

\* C4: a tick suppresses unknown-face alerts only for an active session of
\* security_key.json, and after a processed tick an active session is no
\* older than its timeout: the check at the top of the iteration has ended
\* every older one.
C4_NoSuppressionPastTimeout ==
    /\ "alerts_skipped" \in Range(toasts) => key_data.trusted_session_active
    /\ (hist.step = "tick" /\ key_data.trusted_session_active) =>
          clock - key_data.trusted_session_start <= key_data.security_key_timeout

\* A tick suppressed the alert for a session exactly as old as its timeout.
C4_Witness ==
    /\ hist.step = "tick"
    /\ "alerts_skipped" \in Range(toasts)
    /\ clock - key_data.trusted_session_start = key_data.security_key_timeout

\* C5 as stated: a tick opens no confirmation request while a trusted
\* session is valid, be it the one started by detection (worker) or the one
\* started by key entry (security_key.json).
C5_NoRequestWhileSessionValid ==
    RequestOpened => ~WorkerSessionValid /\ ~key_data.trusted_session_active

\* C6 as stated: after a processed tick a request is awaiting only if the
\* clock has not passed its opening time by more than 6 s.
C6_RequestClosedByDeadline ==
    (hist.step = "tick" /\ worker.awaiting_gesture) =>
        clock <= hist.request_at + ConfirmWindow

\* C7: the latest two confirmation requests were opened more than 2 s apart,
\* and no request was awaiting when the latest one was opened.
C7_RequestsDebounced ==
    /\ hist.prev_request_at # None =>
          hist.request_at - hist.prev_request_at > DebounceSeconds
    /\ ~hist.open_awaiting

\* Two requests were opened 3 s apart.
C7_Witness ==
    /\ hist.prev_request_at # None
    /\ hist.request_at - hist.prev_request_at = DebounceSeconds + 1

\* C8: a confirmation request is opened only by a processed tick on which
\* the owner was not detected, a face was detected, no face matched a
\* trusted identity and the session of security_key.json (the one that
\* suppresses alerts) was not active; no request was awaiting then.
C8_RequestOnlyForUnknownFace ==
    RequestOpened =>
        /\ hist.step = "tick"
        /\ ~hist.open_obs.owner_here
        /\ hist.open_obs.faces
        /\ hist.open_obs.trusted = NoUser
        /\ ~key_data.trusted_session_active
        /\ ~hist.open_awaiting

\* A tick has just opened a request, which is now awaiting.
C8_Witness ==
    /\ RequestOpened
    /\ worker.awaiting_gesture
    /\ worker.last_unknown_ts = clock
    /\ hist.open_obs.faces /\ ~hist.open_obs.owner_here

\* C9: with auto-lock disabled, after each tick of an uninterrupted absence
\* set_brightness(0) has been called once if more than owner_absence_delay
\* (3 s) has passed since the first tick of the absence, and never before.
C9_DimmedOnceAfterDelay ==
    (OwnerMissedOnTick /\ ~worker.auto_lock_enabled) =>
        hist.zero_calls = (IF clock - hist.run_start > OwnerAbsenceDelay THEN 1 ELSE 0)

\* An absence that was dimmed and went on for two more seconds.
C9_Witness ==
    /\ OwnerMissedOnTick /\ ~worker.auto_lock_enabled
    /\ hist.zero_calls = 1
    /\ calls = <<>>
    /\ clock - hist.run_start >= OwnerAbsenceDelay + 3

\* C10 as stated: an iteration that finds the loop paused has released the
\* camera and left every transient field neutral.
C10_PauseResetsTransients ==
    hist.step = "paused" =>
        /\ ~worker.cap_opened
        /\ worker.owner_absent_start = None
        /\ ~worker.brightness_dimmed_for_absence
        /\ ~worker.auto_lock_in_progress
        /\ worker.auto_lock_grace_period_start = None
        /\ worker.brightness_before_auto_lock = None
        /\ ~worker.awaiting_gesture
        /\ ~worker.gesture_confirmed

\* C11 as stated: the lock actuator is invoked only when the owner has been
\* undetected, on every tick since the last observed lock or sleep
\* transition (a resume among them), for more than owner_absence_delay plus
\* auto_lock_grace_period; and a step that resumes the loop leaves no
\* auto-lock sequence armed.
C11_NoStaleSequenceAfterResume ==
    /\ LockCall \in Range(calls) =>
          /\ hist.run_start # None
          /\ clock - hist.run_start
                > worker.owner_absence_delay + worker.auto_lock_grace_period
    /\ "monitoring_resumed" \in Range(toasts) => ~worker.auto_lock_in_progress

\* The last step verified input.key after set_security_key(input.key) / the
\* other key, which differs from input.key after trimming.
VerifiedSameKey == hist.set_called /\ hist.step = "verify_key"

VerifiedOtherKey ==
    /\ hist.set_called /\ hist.step = "verify_other_key"
    /\ strip(input.other_key) # strip(input.key)

\* C12 as stated: for every key of at least 4 characters, verifying it after
\* it was set succeeds and verifying a key that differs after trimming fails.
C12_SetThenVerifyAnyKey ==
    Len(input.key) >= MinKeyLength =>
        /\ VerifiedSameKey => result = <<TRUE, "verified">>
        /\ VerifiedOtherKey => ~result[1]

\* C12 as amended: for every key that has at least 4 characters after its
\* surrounding whitespace is trimmed, set_security_key(k, m) succeeds and
\* verify_security_key(k) then returns success, and verify_security_key(k2)
\* for any k2 that differs from k after trimming returns failure; a
\* verification changes neither the security-key record nor any
\* trusted-session field.
C12_SetThenVerifyTrimmedKey ==
    /\ [](Len(strip(input.key)) >= MinKeyLength =>
            /\ hist.step = "set_security_key" => result = <<TRUE, "set">>
            /\ VerifiedSameKey => result = <<TRUE, "verified">>
            /\ VerifiedOtherKey => result = <<FALSE, "invalid">>)
    /\ [][hist'.step \in {"verify_key", "verify_other_key"} =>
            /\ key_data' = key_data
            /\ worker' = worker
            /\ settings' = settings]_vars

\* A key typed with surrounding whitespace was set and then verified.
C12_Witness ==
    /\ VerifiedSameKey
    /\ result = <<TRUE, "verified">>
    /\ Len(input.key) > Len(strip(input.key))

\* Time remaining of the worker's trusted session.
SessionRemaining ==
    worker.security_key_timeout - (clock - worker.trusted_session_start)

\* C13: after every tick of a session (timeout 600 s) whose trusted identity
\* is in view, the expiry warning has been emitted once if the time
\* remaining is within (0, 60] and not at all while it was above 60; a tick
\* emits it only within (0, 60], and at most once in the session; after a
\* tick with no time remaining the key challenge has been required by that
\* tick, unless the key dialog is already open.
C13_WarningOnceThenChallenge ==
    (hist.step = "tick" /\ worker.trusted_session_active) =>
        /\ SessionRemaining > WarningWindow => hist.warnings = 0
        /\ (0 < SessionRemaining /\ SessionRemaining <= WarningWindow) =>
              hist.warnings = 1
        /\ "security_key_warning" \in Range(toasts) =>
              0 < SessionRemaining /\ SessionRemaining <= WarningWindow
        /\ hist.warnings <= 1
        /\ SessionRemaining <= 0 =>
              \/ "security_key_required" \in Range(toasts)
              \/ worker.security_key_dialog # NoUser

\* The session has expired after the warning was emitted inside its window.
C13_Witness ==
    /\ hist.step = "tick" /\ worker.trusted_session_active
    /\ SessionRemaining = -1
    /\ hist.warnings = 1
    /\ "security_key_required" \in Range(toasts)

\* The episodes that are open.
OpenEpisodes ==
    {e \in {"calibration", "training", "test", "confirmation"} :
        \/ e = "calibration" /\ worker.calibration_mode
        \/ e = "training" /\ worker.gesture_training_mode
        \/ e = "test" /\ worker.gesture_test_mode
        \/ e = "confirmation" /\ worker.awaiting_gesture}

\* C14 as stated: after every processed tick at most one of calibration,
\* training, gesture test and unknown-face confirmation is open.
C14_OneEpisodeAtATime ==
    hist.step = "tick" => Cardinality(OpenEpisodes) <= 1

\* The oscillations of an axis as C15 words them: the baseline is
\* subtracted, a value above the threshold is +1, one below its negative is
\* -1, the zeros are dropped, and every remaining state that differs from
\* the one before it counts.
AxisOscillations(samples, baseline, th) ==
    LET State(v) == IF v - baseline > th THEN 1
                    ELSE IF v - baseline < -th THEN -1 ELSE 0
        states == [i \in 1..Len(samples) |-> State(samples[i])]
        IsNonzero(st) == st # 0
        nonzero == SelectSeq(states, IsNonzero)
    IN  Cardinality({i \in 1..(Len(nonzero) - 1) : nonzero[i + 1] # nonzero[i]})

PitchOscillations ==
    AxisOscillations(input.pitch_hist, worker.baseline_pitch, worker.nod_threshold)

YawOscillations ==
    AxisOscillations(input.yaw_hist, worker.baseline_yaw, worker.shake_threshold)

\* C15: the classifier returns (false, false) for a window of fewer than 10
\* samples on either axis, and otherwise is_nod = (pitch oscillations >= 2
\* and yaw oscillations < 2), is_shake = (yaw oscillations >= 2 and pitch
\* oscillations < 2).
C15_ClassifierByOscillations ==
    hist.step = "detect_gesture" =>
        IF Len(input.pitch_hist) < MinSamples \/ Len(input.yaw_hist) < MinSamples
        THEN result = <<FALSE, FALSE>>
        ELSE result = <<PitchOscillations >= 2 /\ YawOscillations < 2,
                        YawOscillations >= 2 /\ PitchOscillations < 2>>

\* A nod was classified from a window whose pitch crosses both thresholds
\* with a sample exactly on a threshold in between.
C15_Witness ==
    /\ hist.step = "detect_gesture"
    /\ result = <<TRUE, FALSE>>
    /\ \E i \in 1..Len(input.pitch_hist) :
          input.pitch_hist[i] - worker.baseline_pitch = worker.nod_threshold

TrainingCompleted == "training_complete" \in Range(toasts)

\* The ranges of the training that has just completed, and 5 x 25 x its
\* threshold.
CompletedRanges == worker.training_data[worker.gesture_training_type]

CompletedThresholdBy5 ==
    5 * (IF worker.gesture_training_type = "nod"
         THEN worker.nod_threshold ELSE worker.shake_threshold)

CompletedFloor == IF worker.gesture_training_type = "nod" THEN 8 ELSE 10

\* C16: a completed training with the recorded ranges r1..r5 sets the
\* threshold of its gesture to max(floor, 0.6 x mean(r)), the floor being
\* 8.0 for the nod and 10.0 for the shake: [10,12,11,9,13] gives 8.0 and
\* [20,22,21,19,23] gives 12.6; the nod threshold is never below 8.0 and the
\* shake threshold never below 10.0.
C16_TrainedThresholdFloored ==
    /\ worker.nod_threshold >= 25 * 8
    /\ worker.shake_threshold >= 25 * 10
    /\ TrainingCompleted =>
          /\ Len(CompletedRanges) = 5
          /\ \/ /\ 15 * SeqSum(CompletedRanges) >= 5 * 25 * CompletedFloor
                /\ CompletedThresholdBy5 = 15 * SeqSum(CompletedRanges)
             \/ /\ 15 * SeqSum(CompletedRanges) < 5 * 25 * CompletedFloor
                /\ CompletedThresholdBy5 = 5 * 25 * CompletedFloor
          /\ (CompletedRanges = <<10, 12, 11, 9, 13>>
                 /\ worker.gesture_training_type = "nod")
                => worker.nod_threshold = 200
          /\ CompletedRanges = <<20, 22, 21, 19, 23>>
                => CompletedThresholdBy5 = 5 * 315

\* A nod training has completed with ranges whose scaled mean is below the
\* floor.
C16_Witness ==
    /\ TrainingCompleted
    /\ worker.gesture_training_type = "nod"
    /\ 15 * SeqSum(CompletedRanges) < 5 * 25 * 8
    /\ worker.shake_threshold = ThresholdScale * DefaultShakeThreshold

\* C17: of two calls of restore_brightness in a row, with no store in
\* between, at most one issues the brightness actuator call, and the second
\* changes nothing.
C17_SecondRestoreIdle ==
    [][(hist.step = "restore_brightness" /\ hist'.step = "restore_brightness")
          => /\ Len(calls) + Len(calls') <= 1
             /\ calls' = <<>>
             /\ settings' = settings
             /\ screen' = screen
             /\ worker' = worker]_vars

\* The second of two calls in a row, the first of which has set the
\* brightness back after a dimming.
C17_Witness ==
    /\ hist.step = "restore_brightness"
    /\ hist.restore_run = 2
    /\ hist.restore_calls = 1
    /\ calls = <<>>
    /\ worker.brightness_dimmed_for_absence
    /\ settings.brightness_before_absence = StartBrightness
    /\ screen = StartBrightness

\* C18: while no key is configured (the stored hash is empty or the key is
\* disabled) every verification attempt returns failure with the
\* not-configured message and changes no session state.
C18_NoVerificationWithoutKey ==
    [][(/\ hist'.step = "dialog_verify"
        /\ (worker.security_key_hash = NoHash \/ ~worker.security_key_enabled))
          => /\ result' = <<FALSE, "not_configured">>
             /\ worker'.trusted_session_active = worker.trusted_session_active
             /\ worker'.trusted_session_start = worker.trusted_session_start
             /\ worker'.trusted_user_name = worker.trusted_user_name
             /\ settings' = settings]_vars

\* No two entries of a list have names that are equal ignoring case.
NamesDistinct(faces) ==
    \A i, j \in 1..Len(faces) :
        i # j => ~SameIgnoringCase(faces[i].name, faces[j].name)

C20_RejectedAddChangesNothing ==
    [][(/\ hist'.step = "add_trusted_face"
        /\ hist'.add_case \in {"no_face", "many_faces", "known_face"})
          => /\ result'[1] = FALSE
             /\ worker'.trusted_faces = worker.trusted_faces
             /\ trusted_file' = trusted_file]_vars

\* A face at distance 0.5 of an entry has been refused.
C20_Witness ==
    /\ hist.step = "add_trusted_face"
    /\ hist.add_case = "known_face"
    /\ result = <<FALSE, "already_registered">>
    /\ Len(worker.trusted_faces) = 1
    /\ trusted_file = worker.trusted_faces

\* C21: no failure of a collaborator during a tick escapes the tick or
\* stops the polling loop; the loop goes on to the next tick.
C21_LoopSurvivesFailures == worker.run_active

\* The step is a processed tick that has observed no lock or sleep
\* transition.
PlainTick == hist'.step = "tick" /\ ~SystemChanged(worker')

\* The step is a processed tick on which the owner is detected / is not.
OwnerSeenNow == hist'.step = "tick" /\ hist'.run_start = None

OwnerMissedNow == hist'.step = "tick" /\ hist'.run_start # None

AbsenceNeutral(w) ==
    /\ w.owner_absent_start = None
    /\ ~w.brightness_dimmed_for_absence
    /\ ~w.auto_lock_in_progress
    /\ w.auto_lock_grace_period_start = None
    /\ w.brightness_before_auto_lock = None

\* C22: on a non-paused tick that detects the owner while the absence start
\* is set or auto-lock is armed, the brightness is set back from the
\* auto-lock snapshot if a sequence is armed and otherwise from the stored
\* pre-absence value, and afterwards the absence start, the dimmed and armed
\* flags, the grace start and the pre-lock brightness are all neutral.
C22_OwnerReturnRestores ==
    [][(/\ PlainTick
        /\ OwnerSeenNow
        /\ (worker.owner_absent_start # None \/ worker.auto_lock_in_progress))
          => /\ calls' = IF worker.auto_lock_in_progress
                         THEN <<Call("set_brightness", worker.brightness_before_auto_lock)>>
                         ELSE IF ~settings.brightness_restored
                              THEN <<Call("set_brightness",
                                          settings.brightness_before_absence)>>
                              ELSE <<>>
             /\ AbsenceNeutral(worker')
             /\ "owner_returned" \in Range(toasts')]_vars

\* The owner has come back to an armed sequence and the screen is back at
\* the brightness it had before.
C22_Witness ==
    /\ OwnerSeenOnTick
    /\ worker.auto_lock_enabled
    /\ "owner_returned" \in Range(toasts)
    /\ calls = <<Call("set_brightness", StartBrightness)>>
    /\ screen = StartBrightness
    /\ settings.brightness_restored

\* C23: on every tick that detects the owner an awaiting confirmation
\* request is reset to neutral, so a nod or shake classified after the owner
\* has returned never resolves a request and never changes the brightness.
C23_OwnerReturnClosesRequest ==
    [][(PlainTick /\ OwnerSeenNow /\ worker.awaiting_gesture)
          => /\ ~worker'.awaiting_gesture
             /\ ~worker'.gesture_confirmed
             /\ "nod_confirmed" \notin Range(toasts')
             /\ "shake_denied" \notin Range(toasts')
             /\ Call("set_brightness", NodBrightness) \notin Range(calls')]_vars

\* C24: whenever the system is locked or sleeping the loop is paused: no
\* tick processes observations, calls an actuator or opens a confirmation
\* request until the system is both unlocked and awake, in whatever order
\* lock, unlock, sleep and wake are observed.
C24_PausedWhileLockedOrSleeping ==
    /\ (worker.system_locked \/ worker.system_sleeping) => worker.program_paused
    /\ hist.step = "tick" => ~worker.system_locked /\ ~worker.system_sleeping

\* The step is a tick at which an armed sequence has outlasted its grace
\* period.
GraceElapsedNow ==
    /\ PlainTick
    /\ worker.auto_lock_in_progress
    /\ worker.auto_lock_grace_period_start # None
    /\ clock' - worker.auto_lock_grace_period_start > worker.auto_lock_grace_period

\* C25: when auto-lock is armed and the grace period has elapsed, that tick
\* clears the armed flag, the grace start, the pre-lock brightness, the
\* dimmed flag and the absence start whether the lock actuator and the
\* brightness actuator succeed or fail.
C25_GraceExpiryClearsState ==
    [][GraceElapsedNow => AbsenceNeutral(worker')]_vars

\* The grace period has run out on a tick on which the lock actuator
\* failed, and the state is neutral.
C25_Witness ==
    /\ OwnerMissedOnTick
    /\ "lock_failed" \in Range(toasts)
    /\ LockCall \in Range(calls)
    /\ AbsenceNeutral(worker)

\* The owner is absent, the screen is dimmed for the absence, and an armed
\* sequence, if any, has not outlasted its grace period at the next tick.
DimmedAndWaiting ==
    /\ worker.owner_absent_start # None
    /\ worker.brightness_dimmed_for_absence
    /\ worker.auto_lock_in_progress =>
          /\ worker.auto_lock_grace_period_start # None
          /\ clock' - worker.auto_lock_grace_period_start <= worker.auto_lock_grace_period

\* C26: while the owner is absent and the screen is already dimmed (or
\* dimmed and armed with the grace period not elapsed), a further tick
\* issues no brightness call and no lock call, whatever faces or gestures
\* it observes.
C26_DimmedAbsenceIsQuiet ==
    [][(PlainTick /\ OwnerMissedNow /\ DimmedAndWaiting) => calls' = <<>>]_vars

\* The step is a processed tick that `in` describes: the frame's faces and
\* the classifier's verdict are `in`, and the step's outcome is the tick's.
TickStart == loop_prologue(Machine, worker'.system_locked, worker'.system_sleeping, clock')

TickTook(in) ==
    LET after == process_frame([TickStart EXCEPT !.w.cap_opened = TRUE], in, clock')
    IN  /\ PlainTick
        /\ ~TickStart.w.program_paused
        /\ worker' = after.w
        /\ calls' = after.calls
        /\ toasts' = after.toasts

\* The actuator calls of the step that the evaluation of the request made.
EvaluationMadeNoCall(in) ==
    calls' = before_awaiting([TickStart EXCEPT !.w.cap_opened = TRUE], in, clock').calls

RequestConfirmed ==
    /\ ~worker'.awaiting_gesture /\ worker'.gesture_confirmed
    /\ "nod_confirmed" \in Range(toasts')
    /\ Len(calls') > 0
    /\ calls'[Len(calls')] = Call("set_brightness", NodBrightness)

RequestCancelled(in) ==
    /\ ~worker'.awaiting_gesture /\ ~worker'.gesture_confirmed
    /\ "shake_denied" \in Range(toasts')
    /\ EvaluationMadeNoCall(in)

RequestTimedOut(in) ==
    /\ ~worker'.awaiting_gesture
    /\ "confirmation_timed_out" \in Range(toasts')
    /\ EvaluationMadeNoCall(in)

RequestUntouched(in) ==
    /\ ~worker'.awaiting_gesture
    /\ worker'.gesture_confirmed = worker.gesture_confirmed
    /\ Range(toasts') \cap {"nod_confirmed", "shake_denied", "confirmation_timed_out"} = {}
    /\ EvaluationMadeNoCall(in)

\* C27: while a request is awaiting, a tick that classifies a nod closes it
\* as confirmed and sets the brightness to 25; a tick that classifies a
\* shake closes it as cancelled with no actuator call; a tick with
\* now > deadline and no gesture closes it as timed out with no actuator
\* call; a closed request is never evaluated again.
C27_RequestOutcomes ==
    [][\A in \in ConfirmInputs \cup GestureTestInputs :
          TickTook(in) =>
             /\ (worker.awaiting_gesture /\ in.gesture = "nod") => RequestConfirmed
             /\ (worker.awaiting_gesture /\ in.gesture = "shake") => RequestCancelled(in)
             /\ (worker.awaiting_gesture /\ in.gesture = "none"
                    /\ clock' > worker.gesture_deadline) => RequestTimedOut(in)
             /\ (~worker.awaiting_gesture /\ worker.last_unknown_ts # 0
                    /\ (in.owner_here \/ ~in.faces))
                    => RequestUntouched(in)]_vars

\* The reminder against the tick rate: an unknown face or nobody in the
\* frame, no gesture; the ticks are two seconds, one second or less than a
\* second apart (the clock counts whole seconds, ticks less than a second
\* apart read the same value).
TickGaps == {0, 1, 2}

ReminderInputs == TickInputs({SeesNobody, SeesUnknown}, {"none"}, {"none"})

InitReminder == InitWith(Awake, {FALSE})

NextReminder == TickBy(TickGaps, Awake, ReminderInputs, ReminderHorizon)

SpecReminder == InitReminder /\ [][NextReminder]_vars

\* C28: for each confirmation request that stays awaiting until its
\* deadline, the '2 seconds left' warning is emitted exactly once, at the
\* first tick on which the remaining time is no longer above 2.0 s, for
\* every tick rate: a tick on which the request was and stays awaiting
\* emits the warning once if the remaining time has just come down to
\* 2.0 s or below, and not at all otherwise.
C28_ReminderExactlyOnce ==
    [][(PlainTick /\ worker.awaiting_gesture /\ worker'.awaiting_gesture)
          => Count(toasts', "two_seconds_left") =
                IF /\ 10 * (worker.gesture_deadline - clock) > WarnFromTenths
                   /\ 10 * (worker.gesture_deadline - clock') <= WarnFromTenths
                THEN 1 ELSE 0]_vars

\* The sample window against the episodes: every frame holds a face whose
\* pose is found, the owner's or an unknown one, ticks are one second
\* apart, and _detect_gesture can report a gesture only from MinSamples
\* samples on.  Gesture tests are started at any time.
SampledInputs ==
    {[in EXCEPT !.sampled = TRUE] :
        in \in TickInputs({SeesOwner, SeesUnknown}, {"none", "nod"}, {"none"})}

WindowInputs ==
    {in \in SampledInputs :
        in.gesture # "none" => Len(worker.pitch_hist) + 1 >= MinSamples}

InitWindow == InitWith(Awake, {FALSE})

NextWindow ==
    \/ TickBy({1}, Awake, WindowInputs, WindowHorizon)
    \/ StartGestureTest({"nod"})
    \/ clock <= StartTime + EarlyStarts /\ StartGestureTraining({"nod"})
    \/ clock <= StartTime + EarlyStarts /\ StartGestureCalibration

SpecWindow == InitWindow /\ [][NextWindow]_vars

SamplesSince(w, t) == \A i \in 1..Len(w.pitch_hist) : w.pitch_hist[i] >= t

RequestOpenedNow ==
    /\ PlainTick
    /\ "unknown_face_detected" \in Range(toasts')
    /\ worker'.last_unknown_ts = clock'

RequestVerdictNow ==
    /\ PlainTick
    /\ Range(toasts') \cap {"nod_confirmed", "shake_denied"} # {}

\* C29: the sample window is emptied at the start of every calibration,
\* training, gesture-test and confirmation episode, so a gesture verdict
\* produced during an episode depends only on samples received after that
\* episode began.
C29_WindowEmptiedPerEpisode ==
    [][/\ hist'.step = "ui" => worker'.pitch_hist = <<>>
       /\ RequestOpenedNow => SamplesSince(worker', clock')
       /\ RequestVerdictNow => SamplesSince(worker', worker'.last_unknown_ts)
       /\ (PlainTick /\ worker.gesture_test_mode /\ ~worker'.gesture_test_mode)
             => SamplesSince(worker', worker.gesture_test_start)]_vars

\* A training episode against its 15 s limit: the owner is in the frame, the
\* trained axis moves by exactly 5 degrees or by 13, and ticks are one second
\* or LongGap seconds apart.
TrainingGaps == {1, LongGap}

LongTrainingInputs ==
    {[in EXCEPT !.range = r] :
        in \in TickInputs({SeesOwner}, {"none"}, {"none"}), r \in {MinTrainingRange, 13}}

InitLongTraining == InitWith(Awake, {FALSE})

NextLongTraining ==
    \/ TickBy(TrainingGaps, Awake, LongTrainingInputs, LongTrainingHorizon)
    \/ StartGestureTraining({"nod", "shake"})

SpecLongTraining == InitLongTraining /\ [][NextLongTraining]_vars

\* The samples the running episode has accepted, before and after the step.
AcceptedBefore == worker.training_data[worker.gesture_training_type]

AcceptedAfter == worker'.training_data[worker.gesture_training_type]

TrainingEndsNow == worker.gesture_training_mode /\ ~worker'.gesture_training_mode

TrainedThresholds(w) == <<w.nod_threshold, w.shake_threshold>>

TrainingSucceeded ==
    /\ "training_complete" \in Range(toasts')
    /\ IF worker.gesture_training_type = "nod"
       THEN worker'.nod_threshold = trained_threshold(NodFloor, AcceptedAfter)
       ELSE worker'.shake_threshold = trained_threshold(ShakeFloor, AcceptedAfter)

TrainingFailed ==
    /\ Range(toasts') \cap {"training_failed", "training_timed_out"} # {}
    /\ "training_complete" \notin Range(toasts')
    /\ TrainedThresholds(worker') = TrainedThresholds(worker)

\* C30: a training episode ends at 5 accepted samples or at the first tick
\* more than 15 s after its start; a sample is accepted only when the range
\* on the trained axis exceeds 5.0; an episode that ends with at least 3
\* accepted samples, including one ended by the 15 s timeout, succeeds and
\* updates the threshold, and one that ends with fewer than 3 reports
\* failure and leaves the threshold unchanged.
C30_TrainingEpisodeOutcome ==
    [][(PlainTick /\ worker.gesture_training_mode) =>
          /\ TrainingEndsNow <=>
                \/ Len(AcceptedAfter) >= PatternsNeeded
                \/ clock' - worker.gesture_training_start > TrainingTimeout
          /\ Len(AcceptedAfter) > Len(AcceptedBefore) =>
                AcceptedAfter[Len(AcceptedAfter)] > MinTrainingRange
          /\ (TrainingEndsNow /\ Len(AcceptedAfter) >= MinPatterns) => TrainingSucceeded
          /\ (TrainingEndsNow /\ Len(AcceptedAfter) < MinPatterns) => TrainingFailed]_vars

\* The step is a tick on which an episode ends in failure: a gesture test
\* or a training times out, a training or a calibration under-collects.
TestFailsNow ==
    PlainTick /\ worker.gesture_test_mode /\ "gesture_test_timed_out" \in Range(toasts')

TrainingFailsNow ==
    /\ PlainTick /\ worker.gesture_training_mode
    /\ Range(toasts') \cap {"training_timed_out", "training_failed"} # {}

CalibrationFailsNow ==
    PlainTick /\ worker.calibration_mode /\ "calibration_failed" \in Range(toasts')

\* C31: every calibration, training or gesture-test episode that times out
\* or under-collects reports failure, returns its mode flag to idle, and
\* leaves the sample window and the episode's collected samples empty
\* before the loop is idle again.
C31_FailedEpisodeResetsBuffers ==
    [][/\ TestFailsNow =>
             ~worker'.gesture_test_mode /\ worker'.pitch_hist = <<>>
       /\ TrainingFailsNow =>
             /\ ~worker'.gesture_training_mode
             /\ worker'.pitch_hist = <<>>
             /\ worker'.training_data[worker.gesture_training_type] = <<>>
       /\ CalibrationFailsNow =>
             ~worker'.calibration_mode /\ worker'.pitch_hist = <<>>]_vars

\* A calibration against the other episodes, the confirmation request and
\* the lock: every frame holds a face whose pose is found, the owner's or an
\* unknown one, and the buffered samples have one of two means.  Ticks are
\* a second apart; right after a calibration is started up to MaxBuffered
\* ticks read the clock value of the start.  A gesture test and a training
\* are started at the beginning of the run.
SampleMeans == {<<0, 0>>, <<3, -2>>}

CalibrationInputs ==
    {[in EXCEPT !.sampled = TRUE, !.baseline = b] :
        in \in TickInputs({SeesOwner, SeesUnknown}, {"none"}, {"none"}),
        b \in SampleMeans}

InitCalibration == InitWith(LockStates, {FALSE})

NextCalibration ==
    \/ PausedIteration(LockStates, CalibrationHorizon)
    \/ TickBy({1}, LockStates, CalibrationInputs, CalibrationHorizon)
    \/ /\ worker.calibration_mode /\ clock = worker.calibration_start
       /\ Len(worker.pitch_hist) < MaxBuffered
       /\ TickBy({0}, LockStates, CalibrationInputs, CalibrationHorizon)
    \/ StartGestureCalibration
    \/ clock = StartTime /\ StartGestureTest({"nod"})
    \/ clock = StartTime /\ StartGestureTraining({"nod"})

SpecCalibration == InitCalibration /\ [][NextCalibration]_vars

Baseline(w) == <<w.baseline_pitch, w.baseline_yaw>>

CalibrationOver == clock' - worker.calibration_start > CalibrationSeconds

tick_to_window_check(m, in, now) ==
    LET t == check_gesture_test(append_sample(m, in, now), in.gesture, now)
    IN  [t EXCEPT !.w.run_at = "window_checked"]

\* The rest of the tick.  max() of an empty deque raises ValueError, which
\* nothing catches.
tick_from_window_check(m, in, now) ==
    LET here == [m EXCEPT !.w.run_at = "loop"]
    IN  IF here.w.pitch_hist = <<>>
        THEN Raise(here)
        ELSE LET u == unknown_face_handling(
                          presence_control(
                              check_gesture_calibration(
                                  check_gesture_training(here, in, now), in, now),
                              in, now),
                          in, now)
             IN  IF u.w.run_active THEN evaluate_awaiting(u, in, now) ELSE u

RaceInputs ==
    {[in EXCEPT !.sampled = TRUE, !.range = r] :
        in \in TickInputs({SeesOwner}, {"none"}, {"none"}), r \in {MinTrainingRange, 13}}

\* A tick that no UI action interrupts.
WholeTick ==
    /\ worker.run_at = "loop"
    /\ TickBy({1}, Awake, RaceInputs, RaceHorizon)

\* A tick of a running training reaches the non-empty test and passes it.
TickToWindowCheck ==
    \E in \in RaceInputs :
        LET now == clock + 1
            m == loop_prologue(Machine, FALSE, FALSE, now)
            t == tick_to_window_check([m EXCEPT !.w.cap_opened = TRUE], in, now)
        IN  /\ worker.run_active /\ worker.run_at = "loop"
            /\ now <= StartTime + RaceHorizon
            /\ ~m.w.program_paused
            /\ t.w.gesture_training_mode
            /\ now - t.w.gesture_training_start <= TrainingTimeout
            /\ t.w.pitch_hist # <<>>
            /\ clock' = now
            /\ Commit(t)
            /\ hist' = [hist EXCEPT !.step = "window_check"]

TickFromWindowCheck ==
    \E in \in RaceInputs :
        LET after == tick_from_window_check(Machine, in, clock)
        IN  /\ worker.run_active /\ worker.run_at = "window_checked"
            /\ Commit(after)
            /\ hist' = HistAfterTick(hist, Machine, after, in, clock)
            /\ UNCHANGED clock

InitRace == InitWith(Awake, {FALSE})

NextRace ==
    \/ WholeTick
    \/ TickToWindowCheck
    \/ TickFromWindowCheck
    \/ StartGestureTraining({"nod"})
    \/ StartGestureCalibration
    \/ StartGestureTest({"nod"})

SpecRace == InitRace /\ [][NextRace]_vars

\* C33: a UI-triggered start of a calibration, a training or a gesture test
\* only requests the episode: the sample window and the training samples
\* are mutated by the polling loop alone, so under every interleaving of a
\* UI start with a running tick the tick never uses a window or a sample
\* list that was cleared between its non-empty check and its use.
C33_StartsOnlyRequest ==
    [][/\ hist'.step = "ui" =>
             /\ worker'.pitch_hist = worker.pitch_hist
             /\ worker'.training_data = worker.training_data
       /\ worker'.run_at = "window_checked" => worker'.pitch_hist # <<>>
       /\ worker'.run_active]_vars

\* The step is the key dialog verifying `key` with the worker.
VerifyTook(key) ==
    LET m == worker_verify_security_key(Machine, key, clock)
    IN  /\ hist'.step = "dialog_verify"
        /\ result' = m.ret
        /\ toasts' = m.toasts
        /\ settings' = m.settings
        /\ [worker' EXCEPT !.security_key_dialog = NoUser]
              = [m.w EXCEPT !.security_key_dialog = NoUser]

SessionFields(w, st) ==
    <<w.trusted_session_active, w.trusted_session_start, w.trusted_user_name,
      w.security_key_warning_shown,
      st.trusted_session_active, st.trusted_session_start, st.trusted_user_name>>

\* C34: VisionWorker.verify_security_key with the correct key sets
\* trusted_session_start to now and clears the warning flag while keeping
\* the session's user name and active flag (it extends the session, it does
\* not create one); with an incorrect key it returns failure and changes no
\* session field.
C34_VerifyExtendsSession ==
    [][\A key \in Keys :
          VerifyTook(key) =>
             IF hash_security_key(key) = worker.security_key_hash
             THEN /\ result'[1]
                  /\ worker'.trusted_session_start = clock
                  /\ ~worker'.security_key_warning_shown
                  /\ worker'.trusted_user_name = worker.trusted_user_name
                  /\ worker'.trusted_session_active = worker.trusted_session_active
             ELSE /\ ~result'[1]
                  /\ SessionFields(worker', settings') = SessionFields(worker, settings)]_vars

\* The dialog has just verified the key of a running session whose warning
\* had been shown: the session starts again from now.
C34_Witness ==
    /\ hist.step = "dialog_verify"
    /\ result = <<TRUE, "verified">>
    /\ worker.trusted_session_active
    /\ worker.trusted_user_name # NoUser
    /\ worker.trusted_session_start = clock
    /\ clock > StartTime + SessionTimeout


\* ------------------------------------------------ write-once snapshot

\* The persisted snapshot is rewritten in this step.
SnapshotRewritten ==
    settings'.brightness_before_absence # settings.brightness_before_absence

\* C35: with auto-lock disabled the persisted pre-absence snapshot is
\* rewritten only in a step that starts with brightness_restored true, so
\* that between a store and the next restore no dimming overwrites it, and
\* the snapshot never becomes the dimmed value 0.
C35_SnapshotWrittenOnce ==
    [][~worker.auto_lock_enabled =>
          /\ SnapshotRewritten => settings.brightness_restored
          /\ settings'.brightness_before_absence # 0]_vars


\* ------------------------------------------- auto-lock and its switch

\* SettingsWindow.save_settings with the key field left empty: the auto-lock
\* checkbox is copied to the worker; the other controls keep the values
\* they were loaded with.
settings_window_save_auto_lock(m, auto_lock_checked) ==
    [m EXCEPT !.w.auto_lock_enabled = auto_lock_checked]

\* The user saves the settings window with the auto-lock box set either way.
SaveAutoLock ==
    \E auto_lock_checked \in BOOLEAN :
        /\ Commit(settings_window_save_auto_lock(Machine, auto_lock_checked))
        /\ hist' = [hist EXCEPT !.step = "ui"]
        /\ UNCHANGED clock

\* The presence policy with the settings window open: the owner comes and
\* goes, the system locks, sleeps and wakes, every actuator works, and
\* auto-lock is switched at any moment.
AutoLockSwitchInputs == TickInputs({SeesOwner, SeesNobody}, {"none"}, {"none"})

InitAutoLockSwitch == InitWith(SystemStates, BOOLEAN)

NextAutoLockSwitch ==
    \/ PausedIteration(SystemStates, SwitchHorizon)
    \/ SkippedIteration(SystemStates, SwitchHorizon)
    \/ Tick(SystemStates, AutoLockSwitchInputs, SwitchHorizon)
    \/ SaveAutoLock

SpecAutoLockSwitch == InitAutoLockSwitch /\ [][NextAutoLockSwitch]_vars

\* The auto-lock sequence is armed with everything its expiry relies on.
ArmedIsDimmed ==
    worker.auto_lock_in_progress =>
        /\ worker.brightness_dimmed_for_absence
        /\ worker.auto_lock_grace_period_start # None
        /\ worker.brightness_before_auto_lock # None

\* Both dimming paths hold a snapshot that waits to be restored.
BothSnapshotsPending ==
    /\ worker.brightness_before_auto_lock # None
    /\ ~settings.brightness_restored

\* C36: in every reachable state an armed auto-lock implies that the screen
\* was dimmed for absence and that the grace start and the pre-lock
\* brightness are set, and the auto-lock snapshot and the persisted
\* write-once snapshot are never pending together, also when auto-lock is
\* switched from the settings window during an absence.
C36_OneDimmingPath == ArmedIsDimmed /\ ~BothSnapshotsPending


\* ------------------------------------------------ episodes terminate

\* Calibration, gesture test and training under a loop that keeps ticking:
\* the system stays awake and unlocked, the owner is in the frame, ticks are
\* one second or LongGap seconds apart, and the episodes are started during
\* the first EarlyStarts seconds, so that the clock can pass every limit.
FairHorizon == EarlyStarts + TrainingTimeout + 1

FairEpisodeInputs ==
    {[in EXCEPT !.range = r] :
        in \in TickInputs({SeesOwner}, {"none", "nod"}, {"none"}),
        r \in {MinTrainingRange, 13}}

\* A processed tick as TickBy takes it, the result of each call of the
\* iteration bound before the next call reads it: check_system_state,
\* check_security_key_timeout, the sample of the frame, the three episode
\* checks, the presence policy, the unknown-face handling and the evaluation
\* of an open request.
StagedTickBy(D, Sys, Ins, horizon) ==
    \E dt \in D, sys \in Sys, in \in Ins :
    \E now \in {clock + dt} :
    \E m0 \in {check_system_state(Machine, sys.locked, sys.sleeping)} :
    \E m \in {check_security_key_timeout(m0, now)} :
    \E f0 \in {append_sample([m EXCEPT !.w.cap_opened = TRUE], in, now)} :
    \E f1 \in {check_gesture_test(f0, in.gesture, now)} :
    \E f2 \in {check_gesture_training(f1, in, now)} :
    \E f3 \in {check_gesture_calibration(f2, in, now)} :
    \E f4 \in {presence_control(f3, in, now)} :
    \E f5 \in {unknown_face_handling(f4, in, now)} :
    \E after \in {IF ~in.pose_ok THEN Raise([m EXCEPT !.w.cap_opened = TRUE])
                  ELSE IF f5.w.run_active THEN evaluate_awaiting(f5, in, now)
                  ELSE f5} :
        /\ worker.run_active
        /\ now <= StartTime + horizon
        /\ ~m.w.program_paused
        /\ clock' = now
        /\ Commit(after)
        /\ hist' = HistAfterTick(hist, m, after, in, now)

\* VisionWorker.run: one processed iteration of the while loop.
LoopTick == StagedTickBy(TrainingGaps, Awake, FairEpisodeInputs, FairHorizon)

InitFairEpisodes == InitWith(Awake, {FALSE})

NextFairEpisodes ==
    \/ LoopTick
    \/ clock <= StartTime + EarlyStarts /\ StartGestureTest({"nod"})
    \/ clock <= StartTime + EarlyStarts /\ StartGestureTraining({"nod"})
    \/ clock <= StartTime + EarlyStarts /\ StartGestureCalibration

\* The loop of run() goes round for as long as the thread is active.
SpecFairEpisodes == InitFairEpisodes /\ [][NextFairEpisodes]_vars /\ WF_vars(LoopTick)

\* The step is a processed tick.
ProcessedTick == hist'.step = "tick" /\ clock' > clock

CalibrationTimely ==
    worker.calibration_mode =>
        (worker'.calibration_mode <=>
            ~(clock' - worker.calibration_start > CalibrationSeconds))

TestTimely ==
    worker.gesture_test_mode /\ clock' - worker.gesture_test_start > GestureTestTimeout
        => ~worker'.gesture_test_mode

TrainingTimely ==
    worker.gesture_training_mode =>
        (worker'.gesture_training_mode <=>
            ~ \/ clock' - worker.gesture_training_start > TrainingTimeout
              \/ Len(AcceptedAfter) >= PatternsNeeded)

\* C37: while the loop keeps ticking every started episode ends: a
\* calibration at the first tick more than 3 s after its start, a gesture
\* test no later than the first tick more than 10 s after its start, a
\* training episode at the first tick that holds 5 samples or comes more
\* than 15 s after its start.
C37_EpisodesTerminate ==
    /\ worker.calibration_mode ~> ~worker.calibration_mode
    /\ worker.gesture_test_mode ~> ~worker.gesture_test_mode
    /\ worker.gesture_training_mode ~> ~worker.gesture_training_mode
    /\ [][ProcessedTick => CalibrationTimely /\ TestTimely /\ TrainingTimely]_vars

\* A training episode has just been ended by its 15 s limit, a calibration
\* and a gesture test having run to their limits before it.
C37_Witness ==
    /\ hist.step = "tick"
    /\ "training_timed_out" \in Range(toasts)
    /\ ~worker.gesture_training_mode
    /\ worker.gesture_test_start # None /\ ~worker.gesture_test_mode
    /\ worker.calibration_start # None /\ ~worker.calibration_mode
    /\ clock - worker.gesture_test_start > GestureTestTimeout


\* ------------------------------------------- brightness on the return

\* An absence with a stranger in it: the owner, nobody or an unknown face is
\* in the frame, the unknown face may nod, every actuator works and the
\* system stays awake and unlocked.  Nothing but the worker sets the
\* brightness, which is StartBrightness when the worker is constructed.
ReturnInputs == TickInputs({SeesOwner, SeesNobody, SeesUnknown}, {"none", "nod"}, {"none"})

InitReturn == InitWith(Awake, BOOLEAN)

NextReturn == Tick(Awake, ReturnInputs, ReturnHorizon)

SpecReturn == InitReturn /\ [][NextReturn]_vars

\* The step is the tick on which the owner is found to be back.
OwnerReturnsNow == "owner_returned" \in Range(toasts')

\* C38: the tick on which the owner returns sets the brightness to what
\* was in effect at the last tick on which the owner was present, also
\* when an unknown face's nod set it to 25 meanwhile.
C38_ReturnRestoresOwnerBrightness ==
    [][OwnerReturnsNow => screen' = StartBrightness]_vars


\* ------------------------------------------- a key set while running

\* The key a user sets while the program runs, and the keys typed into the
\* challenge dialog.
NewKey == <<"a", "a", "a", "a", "a">>

ChallengeKeys == {OwnerKey, NewKey}

\* SettingsWindow.save_settings with a key typed into the key field: the
\* store takes the key, and the window stays open when the store refuses
\* it.  The hash written to settings["security_key_hash"] is read by
\* VisionWorker.__init__ alone.
settings_window_save_key(m, new_key, security_key_checked) ==
    IF strip(new_key) = <<>>
    THEN settings_window_save(m, security_key_checked)
    ELSE LET stored == set_security_key(m, strip(new_key), DefaultSessionTimeout \div 60)
         IN  IF stored.ret[1]
             THEN settings_window_save(stored, security_key_checked)
             ELSE stored

\* CameraPreview.set_security_key_dialog: the key and the timeout are asked
\* for and handed to set_security_key.
PreviewSetKey ==
    \E key \in ChallengeKeys :
        /\ Commit(set_security_key(Machine, strip(key), DefaultSessionTimeout \div 60))
        /\ hist' = [hist EXCEPT !.step = "ui", !.set_called = TRUE]
        /\ UNCHANGED clock

\* The settings window is saved with a key in its key field.
SettingsSaveKey ==
    \E new_key \in ChallengeKeys, security_key_checked \in BOOLEAN :
        /\ Commit(settings_window_save_key(Machine, new_key, security_key_checked))
        /\ hist' = [hist EXCEPT !.step = "ui", !.set_called = TRUE]
        /\ UNCHANGED clock

\* SecurityKeyDialog.verify_key with one of the challenge keys typed.
ChallengeVerifyKey ==
    \E entered_key \in ChallengeKeys :
        LET m == worker_verify_security_key(Machine, strip(entered_key), clock)
            ok == m.ret[1]
        IN  /\ worker.security_key_dialog # NoUser
            /\ Commit(IF ok THEN [m EXCEPT !.w.security_key_dialog = NoUser] ELSE m)
            /\ hist' = [hist EXCEPT !.step = "dialog_verify",
                                    !.expired_user = IF ok THEN NoUser ELSE @,
                                    !.warnings = IF ok THEN 0 ELSE @]
            /\ UNCHANGED clock

\* A trusted user is challenged while keys are set from the preview window
\* and from the settings window; the worker was constructed with the hash
\* of the key the store holds.
InitKeyChange == InitWith(Awake, {FALSE})

NextKeyChange ==
    \/ Tick(Awake, KeySwitchInputs, KeyChangeHorizon)
    \/ CreateSecurityKeyDialog
    \/ ChallengeVerifyKey
    \/ PreviewSetKey
    \/ SettingsSaveKey
    \/ SaveSettings

SpecKeyChange == InitKeyChange /\ [][NextKeyChange]_vars

\* What the challenge dialog would answer to a key typed now.
ChallengeAccepts(key) == worker_verify_security_key(Machine, strip(key), clock).ret[1]

\* C39: whatever keys were set and whatever settings were saved, the
\* challenge dialog's check accepts exactly the keys that the module-level
\* verify_security_key accepts.
C39_ChallengeAgreesWithStore ==
    \A key \in ChallengeKeys :
        ChallengeAccepts(key) <=> module_verify_security_key(Machine, key)


\* ------------------------------------------- one challenge at a time

\* A trusted user stays in the frame past the end of the session while the
\* UI thread creates the dialogs the worker asked for, and the user answers
\* or dismisses them.
InitChallenge == InitWith(Awake, {FALSE})

NextChallenge ==
    \/ Tick(Awake, KeySwitchInputs, ChallengeHorizon)
    \/ CreateSecurityKeyDialog
    \/ DialogVerifyKey
    \/ DialogCancel

SpecChallenge == InitChallenge /\ [][NextChallenge]_vars

\* Dialogs asked for and not yet created, and the dialog the worker refers to.
Challenges(queue, w) ==
    Len(queue) + (IF w.security_key_dialog # NoUser THEN 1 ELSE 0)

\* The step emits the "security key required" notification.
KeyRequiredNow == "security_key_required" \in Range(toasts')

\* C40: at most one security-key challenge is open or pending at any time,
\* and the "security key required" notification is emitted only by a step
\* that starts with no challenge open or pending, once.
C40_OneChallenge ==
    [][/\ Challenges(ui_queue', worker') <= 1
       /\ KeyRequiredNow =>
             /\ Challenges(ui_queue, worker) = 0
             /\ Count(toasts', "security_key_required") = 1]_vars

====
